---- MODULE Spec2Model ----
(***************************************************************************)
(* Fish dating simulator: the date scene (DatingState over a dialogue      *)
(* Runner), the commit of a date into the player record, the plugin        *)
(* loader with its fish registry, and the game's screens (main menu,       *)
(* fishing, results, the moon battle).                                     *)
(*                                                                         *)
(* Option<T> is modelled as a sequence of length at most one:              *)
(* None is <<>> and Some(x) is <<x>>.                                      *)
(***************************************************************************)
EXTENDS Integers, Sequences, FiniteSets, TLC

VARIABLES
  screen,            \* Game.screen: the GameScreen enum value (tag + payload)
  player,            \* Game.player: PlayerState
  registry,          \* Game.registry / the registry load_plugins fills
  date_select_menu,  \* Game.date_select_menu: Option<SelectionMenu>
  main_menu,         \* Game.menu: the SelectionMenu of the main menu
  pond_state,        \* Game.pond_state: Option<PondSelectState>
  collection_scroll, \* Game.collection_scroll
  moon_secret,       \* Game.moon_secret: SecretSequence
  plugins_dir,       \* the plugins directory on disk: Option<set of files>
  scripts,           \* load_plugins: the sorted .rhai script names
  next_script,       \* load_plugins: position of its for loop in scripts
  ghost              \* history of the run, read only by the properties

vars == <<screen, player, registry, date_select_menu, main_menu, pond_state,
          collection_scroll, moon_secret, plugins_dir, scripts, next_script, ghost>>

\* ------------------------------------------------------------------ bounds

\* Successful selections allowed in one date (plugin graphs may loop).
MaxSelections == 3
\* Ticks of frame time the typewriter timer counts before it saturates.
TimerCap == 1
\* Dates already had with each caught fish in the loaded save.
MaxPriorDates == 3
\* Direct register calls in the registry specification.
MaxRegisterCalls == 4
\* Files in the plugins directory, and statements in one script.
MaxFiles == 2
MaxStmts == 2
\* Frames of the Reeling phase that one minigame is followed for.
MaxReelFrames == 3

\* ----------------------------------------------------------- small helpers

None == <<>>
Some(x) == <<x>>
IsSome(o) == o # <<>>
Unwrap(o) == o[1]

Min(a, b) == IF a < b THEN a ELSE b
Max(a, b) == IF a > b THEN a ELSE b

I32 == (-2147483647 - 1) .. 2147483647

\* ------------------------------------------------- dialogue graph (data)

\* DialogueNode::Text { id, speaker, text, next_node, .. }; the text is kept
\* as its length in typewriter ticks.
TextNode(id, speaker, text, next_node) ==
  [kind |-> "Text", id |-> id, speaker |-> speaker, text |-> text,
   next_node |-> next_node]

\* DialogueNode::Choice { id, prompt, choices }
ChoiceNode(id, choices) ==
  [kind |-> "Choice", id |-> id, prompt |-> 1, choices |-> choices]

\* DialogueNode::end(id)
EndNode(id) == [kind |-> "End", id |-> id]

\* Choice::new(text, next_node): an option with no variable deltas yet.
Choice_new(next_node) == [text |-> 1, next_node |-> next_node, sets |-> <<>>]

\* Choice::sets(name, delta): appends one variable delta to the option.
sets(choice, name, delta) ==
  [choice EXCEPT !.sets = Append(@, [name |-> name, delta |-> delta])]

\* data/dialogues.rs text_node: every built-in text has a speaker, a
\* non-empty text and Some(next).
text_node(id, speaker, next) == TextNode(id, Some(speaker), 1, Some(next))

NodeIdsOf(nodes) == {nodes[i].id : i \in DOMAIN nodes}

\* The last node added under an id is the one the map keeps.
NodeAt(nodes, id) ==
  nodes[CHOOSE i \in DOMAIN nodes :
          /\ nodes[i].id = id
          /\ \A j \in DOMAIN nodes : nodes[j].id = id => j <= i]

\* DialogueBuilder::new(start).node(..)...build_unchecked(): no validation.
build_unchecked(start_node, nodes) ==
  [start_node |-> start_node,
   nodes |-> [id \in NodeIdsOf(nodes) |-> NodeAt(nodes, id)]]

\* References a node makes to other nodes.
NodeRefs(n) ==
  CASE n.kind = "Text" -> {n.next_node[i] : i \in DOMAIN n.next_node}
    [] n.kind = "Choice" -> {n.choices[i].next_node : i \in DOMAIN n.choices}
    [] OTHER -> {}

\* A reference of the tree that names no node of the tree.
DanglingRefs(tree) ==
  UNION {NodeRefs(tree.nodes[id]) : id \in DOMAIN tree.nodes} \ DOMAIN tree.nodes

\* DialogueBuilder::build(): the validating construction. TRUE when it
\* succeeds: non-empty, unique ids, start present, no unknown reference.
validate(tree) ==
  /\ DOMAIN tree.nodes # {}
  /\ tree.start_node \in DOMAIN tree.nodes
  /\ DanglingRefs(tree) = {}

build_ok(start_node, nodes) ==
  /\ \A i, j \in DOMAIN nodes : nodes[i].id = nodes[j].id => i = j
  /\ validate(build_unchecked(start_node, nodes))

\* ------------------------------------------------------- dialogue Runner

VarNames == {"affection"}

\* DialogueRunner::new(tree): cursor at the start node, variables at zero,
\* no pending event.
DialogueRunner_new(tree) ==
  [tree |-> tree, current_node |-> Some(tree.start_node),
   variables |-> [v \in VarNames |-> 0], events |-> <<>>]

\* The node the cursor resolves to, Option<node>.
ResolveNode(r) ==
  IF IsSome(r.current_node) /\ Unwrap(r.current_node) \in DOMAIN r.tree.nodes
    THEN Some(r.tree.nodes[Unwrap(r.current_node)])
    ELSE None

\* DialogueRunner::current(): Option<DialogueState>; pure.
current(r) ==
  LET n == ResolveNode(r) IN
  IF n = None THEN None
  ELSE CASE Unwrap(n).kind = "Text" ->
              Some([kind |-> "Text", speaker |-> Unwrap(n).speaker,
                    text |-> Unwrap(n).text])
         [] Unwrap(n).kind = "Choice" ->
              Some([kind |-> "Choices", prompt |-> Unwrap(n).prompt,
                    choices |-> Unwrap(n).choices])
         [] OTHER -> Some([kind |-> "End"])

\* The Runner state of the spec: AtText, AtChoice or Ended.
RunnerState(r) ==
  LET c == current(r) IN
  IF c = None \/ Unwrap(c).kind = "End" THEN "Ended"
  ELSE IF Unwrap(c).kind = "Text" THEN "AtText" ELSE "AtChoice"

\* Variable store apply(name, delta): store old + delta and, only when the
\* value changed, append VariableChanged{name, old, new}.
apply(r, name, delta) ==
  LET old == r.variables[name]
      new == old + delta
  IN [r EXCEPT !.variables[name] = new,
               !.events = IF new # old
                            THEN Append(@, [name |-> name, old_value |-> old,
                                            new_value |-> new])
                            ELSE @]

RECURSIVE apply_all(_, _)
apply_all(r, deltas) ==
  IF deltas = <<>> THEN r
  ELSE apply_all(apply(r, Head(deltas).name, Head(deltas).delta), Tail(deltas))

\* Mutant: advancing clears the variable store.
advance_clears_variables(r) ==
  LET n == ResolveNode(r) IN
  IF n # None /\ Unwrap(n).kind = "Text"
    THEN [res |-> "Ok",
          runner |-> [r EXCEPT !.current_node = Unwrap(n).next_node,
                               !.variables = [v \in VarNames |-> 0]]]
    ELSE [res |-> "InvalidOperation", runner |-> r]

\* DialogueRunner::advance(): valid only at a Text node.
advance(r) ==
  LET n == ResolveNode(r) IN
  IF n # None /\ Unwrap(n).kind = "Text"
    THEN [res |-> "Ok", runner |-> [r EXCEPT !.current_node = Unwrap(n).next_node]]
    ELSE [res |-> "InvalidOperation", runner |-> r]

\* DialogueRunner::select_choice(index): valid only at a Choice node and for
\* an index (0-based) inside its option list.
select_choice(r, index) ==
  LET n == ResolveNode(r) IN
  IF n = None \/ Unwrap(n).kind # "Choice"
    THEN [res |-> "InvalidOperation", runner |-> r]
  ELSE IF index < 0 \/ index >= Len(Unwrap(n).choices)
    THEN [res |-> "IndexOutOfRange", runner |-> r]
  ELSE LET c == Unwrap(n).choices[index + 1]
           applied == apply_all(r, c.sets)
       IN [res |-> "Ok",
           runner |-> [applied EXCEPT !.current_node = Some(c.next_node)]]

\* DialogueRunner::poll_event(): pops the oldest queued event.
poll_event(r) ==
  IF r.events = <<>> THEN [event |-> None, runner |-> r]
  ELSE [event |-> Some(Head(r.events)), runner |-> [r EXCEPT !.events = Tail(@)]]

\* ------------------------------------------- plugin values (Rhai Dynamic)

\* A Dynamic value a script hands to a host function, tagged by its type.
\* Floats are kept in tenths (DynFloat(5) is 0.5).
DynStr(s) == [t |-> "string", v |-> s]
DynInt(i) == [t |-> "int", v |-> i]
DynFloat(tenths) == [t |-> "float", v |-> tenths]
DynArray(seq) == [t |-> "array", v |-> seq]
DynMap(m) == [t |-> "map", v |-> m]
DynDialogue(def) == [t |-> "DialogueDef", v |-> def]

\* i64 as i32: the cast keeps the low 32 bits. Every integer of the model is
\* inside i32 (the model checker's own range), where the cast changes nothing.
AsI32(i) == i

\* ------------------------------------------ plugins/dialogue_def.rs

DialogueDef_new(title) == [title |-> title, speakers |-> <<>>, nodes |-> <<>>]

add_text(d, id, speaker, text, next) ==
  [d EXCEPT !.nodes = Append(@, [kind |-> "Text", id |-> id, speaker |-> speaker,
                                 text |-> text, next |-> next])]

add_choice(d, id, prompt, options) ==
  [d EXCEPT !.nodes = Append(@, [kind |-> "Choice", id |-> id, prompt |-> prompt,
                                 options |-> options])]

add_end(d, id) == [d EXCEPT !.nodes = Append(@, [kind |-> "End", id |-> id])]

\* One ChoiceOptionDef lowered to a Choice: the affection delta is attached
\* only when it is not zero.
LowerOption(opt) ==
  IF opt.affection # 0
    THEN sets([text |-> opt.text, next_node |-> opt.next, sets |-> <<>>],
              "affection", opt.affection)
    ELSE [text |-> opt.text, next_node |-> opt.next, sets |-> <<>>]

\* One NodeDef lowered to a DialogueNode.
LowerNode(n) ==
  CASE n.kind = "Text" -> TextNode(n.id, Some(n.speaker), n.text, Some(n.next))
    [] n.kind = "Choice" ->
         [kind |-> "Choice", id |-> n.id, prompt |-> n.prompt,
          choices |-> [i \in DOMAIN n.options |-> LowerOption(n.options[i])]]
    [] OTHER -> EndNode(n.id)

\* DialogueDef::to_dialogue_tree: start at the first node (or "start" when
\* there is none), lower every node, build without validation.
to_dialogue_tree(d) ==
  LET start_node == IF d.nodes # <<>> THEN d.nodes[1].id ELSE "start" IN
  build_unchecked(start_node, [i \in DOMAIN d.nodes |-> LowerNode(d.nodes[i])])

\* Whether validating construction of the same nodes would succeed.
to_dialogue_tree_checked_ok(d) ==
  LET start_node == IF d.nodes # <<>> THEN d.nodes[1].id ELSE "start" IN
  build_ok(start_node, [i \in DOMAIN d.nodes |-> LowerNode(d.nodes[i])])

\* Mutant: a missing affection key counts as 1.
parse_choice_option_default_one(item) ==
  IF item.t # "map" THEN None
  ELSE LET m == item.v IN
    IF "text" \notin DOMAIN m \/ m["text"].t # "string" THEN None
    ELSE IF "next" \notin DOMAIN m \/ m["next"].t # "string" THEN None
    ELSE Some([text |-> m["text"].v, next |-> m["next"].v,
               affection |-> IF "affection" \in DOMAIN m /\ m["affection"].t = "int"
                               THEN AsI32(m["affection"].v) ELSE 1])

\* parse_choice_options, one array item: Some(ChoiceOptionDef) for a map with
\* string text and next; affection defaults to 0 unless an integer.
parse_choice_option(item) ==
  IF item.t # "map" THEN None
  ELSE LET m == item.v IN
    IF "text" \notin DOMAIN m \/ m["text"].t # "string" THEN None
    ELSE IF "next" \notin DOMAIN m \/ m["next"].t # "string" THEN None
    ELSE Some([text |-> m["text"].v, next |-> m["next"].v,
               affection |-> IF "affection" \in DOMAIN m /\ m["affection"].t = "int"
                               THEN AsI32(m["affection"].v) ELSE 0])

RECURSIVE parse_choice_options(_)
parse_choice_options(arr) ==
  IF arr = <<>> THEN <<>>
  ELSE parse_choice_option(Head(arr)) \o parse_choice_options(Tail(arr))

\* ------------------------------------------------ plugins/loader.rs

\* The operation cap create_engine sets on every script's interpreter.
max_operations == 100000

\* get_str of parse_fish_def: a required string field.
get_str(map, key) ==
  IF key \notin DOMAIN map THEN [ok |-> FALSE, err |-> "missing required field"]
  ELSE IF map[key].t # "string" THEN [ok |-> FALSE, err |-> "must be a string"]
  ELSE [ok |-> TRUE, v |-> map[key].v]

\* The difficulty field: a float or an integer, else 0.5 (in tenths).
parse_difficulty(map) ==
  IF "difficulty" \in DOMAIN map /\ map["difficulty"].t = "float"
    THEN map["difficulty"].v
  ELSE IF "difficulty" \in DOMAIN map /\ map["difficulty"].t = "int"
    THEN 10 * map["difficulty"].v
  ELSE 5

\* The dates field: the DialogueDef items of an array, each lowered to a tree.
RECURSIVE parse_dates(_)
parse_dates(arr) ==
  IF arr = <<>> THEN <<>>
  ELSE (IF Head(arr).t = "DialogueDef" THEN <<to_dialogue_tree(Head(arr).v)>> ELSE <<>>)
       \o parse_dates(Tail(arr))

\* parse_fish_def: Result<FishDef, String>. Of the FishDef only the fields a
\* property reads are kept.
parse_fish_def(map) ==
  LET id == get_str(map, "id")
      name == get_str(map, "name")
      species == get_str(map, "species")
  IN IF ~id.ok THEN [ok |-> FALSE, err |-> id.err]
     ELSE IF ~name.ok THEN [ok |-> FALSE, err |-> name.err]
     ELSE IF ~species.ok THEN [ok |-> FALSE, err |-> species.err]
     ELSE [ok |-> TRUE,
           fish |-> [id |-> id.v, name |-> name.v, species |-> species.v,
                     difficulty |-> parse_difficulty(map),
                     dialogues |-> IF "dates" \in DOMAIN map /\ map["dates"].t = "array"
                                     THEN parse_dates(map["dates"].v) ELSE <<>>]]

\* Mutant: a record that does not parse raises a script error.
register_fish_raises(registered, fish_map) ==
  LET parsed == parse_fish_def(fish_map) IN
  IF parsed.ok THEN [registered |-> Append(registered, parsed.fish), raised |-> FALSE]
               ELSE [registered |-> registered, raised |-> TRUE]

\* The register_fish host function: a record that parses is pushed on the
\* script's own list; one that does not is printed and the call returns
\* normally, so it never raises into the script.
register_fish(registered, fish_map) ==
  LET parsed == parse_fish_def(fish_map) IN
  IF parsed.ok THEN [registered |-> Append(registered, parsed.fish), raised |-> FALSE]
               ELSE [registered |-> registered, raised |-> FALSE]

\* engine.eval(source): the statements run in order, each counted against
\* the operation cap. A throw, or crossing the cap, ends the evaluation with
\* an error, as does a host function that raises; the list of submitted fish
\* is what register_fish collected.
RECURSIVE eval(_, _, _)
eval(body, operations, registered) ==
  IF body = <<>> THEN [res |-> "Ok", registered |-> registered]
  ELSE LET stmt == Head(body)
           ops == operations + stmt.cost
       IN IF ops > max_operations
            THEN [res |-> "ErrorTooManyOperations", registered |-> registered]
          ELSE IF stmt.op = "throw"
            THEN [res |-> "ErrorRuntime", registered |-> registered]
          ELSE IF stmt.op = "register_fish"
            THEN LET call == register_fish(registered, stmt.map)
                 IN IF call.raised
                      THEN [res |-> "ErrorRuntime", registered |-> call.registered]
                      ELSE eval(Tail(body), ops, call.registered)
          ELSE eval(Tail(body), ops, registered)

\* ---------------------------------------------- plugins/registry.rs

FishRegistry_new == [fish |-> <<>>, order |-> <<>>]

\* Mutant: a refused id is pushed on the order list all the same.
register_order_unchecked(reg, fish) ==
  IF fish.id \in DOMAIN reg.fish
    THEN [ok |-> FALSE, registry |-> [reg EXCEPT !.order = Append(reg.order, fish.id)]]
    ELSE [ok |-> TRUE,
          registry |-> [fish |-> [k \in DOMAIN reg.fish \cup {fish.id} |->
                                    IF k = fish.id THEN fish ELSE reg.fish[k]],
                        order |-> Append(reg.order, fish.id)]]

\* Mutant: the definition is inserted without looking for the id first.
register_overwrite(reg, fish) ==
  [ok |-> TRUE,
   registry |-> [fish |-> [k \in DOMAIN reg.fish \cup {fish.id} |->
                             IF k = fish.id THEN fish ELSE reg.fish[k]],
                 order |-> Append(reg.order, fish.id)]]

\* FishRegistry::register: false for an id already present, else insert and
\* append the id to the order list.
register(reg, fish) ==
  IF fish.id \in DOMAIN reg.fish
    THEN [ok |-> FALSE, registry |-> reg]
    ELSE [ok |-> TRUE,
          registry |-> [fish |-> [k \in DOMAIN reg.fish \cup {fish.id} |->
                                    IF k = fish.id THEN fish ELSE reg.fish[k]],
                        order |-> Append(reg.order, fish.id)]]

\* FishRegistry::count
count(reg) == Cardinality(DOMAIN reg.fish)

\* FishRegistry::plugin_ids
plugin_ids(reg) == reg.order

\* FishRegistry::get: Option<FishDef>
get(reg, id) == IF id \in DOMAIN reg.fish THEN Some(reg.fish[id]) ELSE None

RECURSIVE register_all(_, _)
register_all(reg, fish_defs) ==
  IF fish_defs = <<>> THEN reg
  ELSE register_all(register(reg, Head(fish_defs)).registry, Tail(fish_defs))

\* Mutant: the fish submitted before an error are registered all the same.
load_single_plugin_partial(file, reg) ==
  IF ~file.readable THEN [outcome |-> "unreadable", submitted |-> <<>>, registry |-> reg]
  ELSE LET r == eval(file.body, 0, <<>>) IN
    [outcome |-> IF r.res = "Ok" THEN "ok" ELSE r.res, submitted |-> r.registered,
     registry |-> register_all(reg, r.registered)]

\* Mutant: a script that fails takes the registry down with it.
load_single_plugin_poisoned(file, reg) ==
  IF ~file.readable THEN [outcome |-> "unreadable", submitted |-> <<>>,
                          registry |-> FishRegistry_new]
  ELSE LET r == eval(file.body, 0, <<>>) IN
    IF r.res = "Ok"
      THEN [outcome |-> "ok", submitted |-> r.registered,
            registry |-> register_all(reg, r.registered)]
      ELSE [outcome |-> r.res, submitted |-> r.registered, registry |-> FishRegistry_new]

\* load_single_plugin on one script file: an unreadable file and a failed
\* evaluation leave the registry alone; a successful one registers every
\* submitted fish in order.
load_single_plugin(file, reg) ==
  IF ~file.readable THEN [outcome |-> "unreadable", submitted |-> <<>>, registry |-> reg]
  ELSE LET r == eval(file.body, 0, <<>>) IN
    IF r.res = "Ok"
      THEN [outcome |-> "ok", submitted |-> r.registered,
            registry |-> register_all(reg, r.registered)]
      ELSE [outcome |-> r.res, submitted |-> r.registered, registry |-> reg]

\* Mutant: the scripts are put in descending order.
RECURSIVE SortNamesDescending(_)
SortNamesDescending(S) ==
  IF S = {} THEN <<>>
  ELSE LET m == CHOOSE x \in S : \A y \in S : x >= y
       IN <<m>> \o SortNamesDescending(S \ {m})

\* scripts.sort(): ascending by file name.
RECURSIVE SortNames(_)
SortNames(S) ==
  IF S = {} THEN <<>>
  ELSE LET m == CHOOSE x \in S : \A y \in S : x <= y
       IN <<m>> \o SortNames(S \ {m})

\* load_plugins up to its loop: Option of the sorted .rhai names; None when
\* the directory is missing or holds no script.
discover_scripts(dir) ==
  IF dir = None THEN None
  ELSE LET names == {f.name : f \in {g \in Unwrap(dir) : g.ext = "rhai"}}
       IN IF names = {} THEN None ELSE Some(SortNames(names))

\* -------------------------------------------------- data/mod.rs

\* FishId: the three built-in variants and Plugin(id).
Bubbles == [variant |-> "Bubbles"]
Marina == [variant |-> "Marina"]
Gill == [variant |-> "Gill"]
Plugin(id) == [variant |-> "Plugin", id |-> id]

\* FishId::BUILTIN
BUILTIN == <<Bubbles, Marina, Gill>>

\* FishId::all_with_plugins: the built-ins, then the plugin ids in
\* registration order.
all_with_plugins(reg) ==
  BUILTIN \o [i \in DOMAIN plugin_ids(reg) |-> Plugin(plugin_ids(reg)[i])]

\* FishId::name (the registry-free accessor build_dialogue falls back on).
FishId_name(fish_id) ==
  IF fish_id.variant = "Plugin" THEN fish_id.id ELSE fish_id.variant

\* relationship_label
relationship_label(score) ==
  IF score <= 0 THEN "Stranger"
  ELSE IF score <= 5 THEN "Acquaintance"
  ELSE IF score <= 15 THEN "Friend"
  ELSE IF score <= 25 THEN "Close Friend"
  ELSE IF score <= 40 THEN "Romantic Interest"
  ELSE "Soulmate"

\* PlayerState::default (a new game).
PlayerState_default ==
  [fish_collection |-> <<>>, relationship_scores |-> <<>>, date_counts |-> <<>>,
   current_day |-> 1, dates_completed |-> 0, achievements |-> {}]

\* HashMap entry(k).or_insert(0) followed by a write of v.
MapPut(m, k, v) == [x \in DOMAIN m \cup {k} |-> IF x = k THEN v ELSE m[x]]

\* HashMap get(k).copied().unwrap_or(0)
MapGetOr0(m, k) == IF k \in DOMAIN m THEN m[k] ELSE 0

has_caught(p, fish_id) ==
  \E i \in DOMAIN p.fish_collection : p.fish_collection[i].id = fish_id

relationship(p, fish_id) == MapGetOr0(p.relationship_scores, fish_id)

\* i32 addition as a release build does it: the sum wraps around 2^32. (A
\* debug build panics instead, and nothing is stored.) The sum is formed
\* without leaving the 32-bit range.
OverflowsI32(a, b) ==
  \/ b > 0 /\ a > 2147483647 - b
  \/ b < 0 /\ a < (-2147483647 - 1) - b
AddI32(a, b) ==
  IF b > 0 /\ a > 2147483647 - b THEN (a + (-2147483647 - 1)) + (b + (-2147483647 - 1))
  ELSE IF b < 0 /\ a < (-2147483647 - 1) - b
    THEN (a - (-2147483647 - 1)) + (b - (-2147483647 - 1))
  ELSE a + b

\* Mutant: the sum is stored as it is.
add_affection_unclamped(p, fish_id, amount) ==
  [p EXCEPT !.relationship_scores =
     MapPut(@, fish_id, AddI32(MapGetOr0(@, fish_id), amount))]

\* PlayerState::add_affection: the score never goes below zero.
add_affection(p, fish_id, amount) ==
  [p EXCEPT !.relationship_scores =
     MapPut(@, fish_id, Max(AddI32(MapGetOr0(@, fish_id), amount), 0))]

date_count(p, fish_id) == MapGetOr0(p.date_counts, fish_id)

increment_date_count(p, fish_id) ==
  [p EXCEPT !.date_counts = MapPut(@, fish_id, MapGetOr0(@, fish_id) + 1)]

add_catch(p, fish_id, pond_name, size) ==
  [p EXCEPT !.fish_collection =
     Append(@, [id |-> fish_id, caught_at |-> pond_name, size |-> size])]

\* PlayerState::has_won: soulmate with any fish.
has_won(p) ==
  \E f \in DOMAIN p.relationship_scores : p.relationship_scores[f] >= 41

\* ------------------------------------------- data/dialogues.rs (built-ins)

\* Number of unique dialogues per fish.
DIALOGUES_PER_FISH == 3

\* Mutant: the first Bubbles date without its third question.
build_bubbles_date1_two_questions ==
  build_unchecked("start", <<
    text_node("start", "bubbles", "q1"),
    ChoiceNode("q1", <<sets(Choice_new("q1_good"), "affection", 3),
        Choice_new("q1_neutral"),
        sets(Choice_new("q1_funny"), "affection", 2)>>),
    text_node("q1_good", "bubbles", "q2"),
    text_node("q1_neutral", "bubbles", "q2"),
    text_node("q1_funny", "bubbles", "q2"),
    ChoiceNode("q2", <<sets(Choice_new("ending_good"), "affection", 4),
        sets(Choice_new("ending_great"), "affection", 2),
        Choice_new("ending_meh")>>),
    text_node("ending_good", "bubbles", "end"),
    text_node("ending_great", "bubbles", "end"),
    text_node("ending_meh", "bubbles", "end"),
    EndNode("end") >>)

build_bubbles_date1 ==
  build_unchecked("start", <<
    text_node("start", "bubbles", "q1"),
    ChoiceNode("q1", <<sets(Choice_new("q1_good"), "affection", 3),
        Choice_new("q1_neutral"),
        sets(Choice_new("q1_funny"), "affection", 2)>>),
    text_node("q1_good", "bubbles", "q2"),
    text_node("q1_neutral", "bubbles", "q2"),
    text_node("q1_funny", "bubbles", "q2"),
    ChoiceNode("q2", <<sets(Choice_new("q2_deep"), "affection", 4),
        sets(Choice_new("q2_hobby"), "affection", 2),
        Choice_new("q2_silence")>>),
    text_node("q2_deep", "bubbles", "q3"),
    text_node("q2_hobby", "bubbles", "q3"),
    text_node("q2_silence", "bubbles", "q3"),
    ChoiceNode("q3", <<sets(Choice_new("ending_good"), "affection", 5),
        sets(Choice_new("ending_great"), "affection", 4),
        sets(Choice_new("ending_meh"), "affection", 1)>>),
    text_node("ending_good", "bubbles", "end"),
    text_node("ending_great", "bubbles", "end"),
    text_node("ending_meh", "bubbles", "end"),
    EndNode("end") >>)

build_bubbles_date2 ==
  build_unchecked("start", <<
    text_node("start", "bubbles", "q1"),
    ChoiceNode("q1", <<sets(Choice_new("q1_concern"), "affection", 3),
        sets(Choice_new("q1_match"), "affection", 5),
        Choice_new("q1_worried")>>),
    text_node("q1_concern", "bubbles", "q2"),
    text_node("q1_match", "bubbles", "q2"),
    text_node("q1_worried", "bubbles", "q2"),
    ChoiceNode("q2", <<sets(Choice_new("q2_phone"), "affection", 3),
        sets(Choice_new("q2_posting"), "affection", 4),
        sets(Choice_new("q2_stern"), "affection", 1)>>),
    text_node("q2_phone", "bubbles", "q3"),
    text_node("q2_posting", "bubbles", "q3"),
    text_node("q2_stern", "bubbles", "q3"),
    ChoiceNode("q3", <<sets(Choice_new("ending_good"), "affection", 6),
        sets(Choice_new("ending_great"), "affection", 5),
        sets(Choice_new("ending_meh"), "affection", 2)>>),
    text_node("ending_good", "bubbles", "end"),
    text_node("ending_great", "bubbles", "end"),
    text_node("ending_meh", "bubbles", "end"),
    EndNode("end") >>)

build_bubbles_date3 ==
  build_unchecked("start", <<
    text_node("start", "bubbles", "q1"),
    ChoiceNode("q1", <<sets(Choice_new("q1_ready"), "affection", 4),
        sets(Choice_new("q1_scared"), "affection", 3),
        sets(Choice_new("q1_tired"), "affection", 2)>>),
    text_node("q1_ready", "bubbles", "q2"),
    text_node("q1_scared", "bubbles", "q2"),
    text_node("q1_tired", "bubbles", "q2"),
    ChoiceNode("q2", <<sets(Choice_new("q2_crowd"), "affection", 4),
        sets(Choice_new("q2_notes"), "affection", 5),
        sets(Choice_new("q2_therapy"), "affection", 2)>>),
    text_node("q2_crowd", "bubbles", "q3"),
    text_node("q2_notes", "bubbles", "q3"),
    text_node("q2_therapy", "bubbles", "q3"),
    ChoiceNode("q3", <<sets(Choice_new("ending_good"), "affection", 7),
        sets(Choice_new("ending_great"), "affection", 6),
        sets(Choice_new("ending_meh"), "affection", 2)>>),
    text_node("ending_good", "bubbles", "end"),
    text_node("ending_great", "bubbles", "end"),
    text_node("ending_meh", "bubbles", "end"),
    EndNode("end") >>)

build_marina_date1 ==
  build_unchecked("start", <<
    text_node("start", "marina", "q1"),
    ChoiceNode("q1", <<sets(Choice_new("q1_flirt"), "affection", 4),
        sets(Choice_new("q1_compete"), "affection", 3),
        sets(Choice_new("q1_snarky"), "affection", 1)>>),
    text_node("q1_flirt", "marina", "q2"),
    text_node("q1_compete", "marina", "q2"),
    text_node("q1_snarky", "marina", "q2"),
    ChoiceNode("q2", <<sets(Choice_new("q2_deep"), "affection", 4),
        sets(Choice_new("q2_race"), "affection", 3),
        sets(Choice_new("q2_blunt"), "affection", 1)>>),
    text_node("q2_deep", "marina", "q3"),
    text_node("q2_race", "marina", "q3"),
    text_node("q2_blunt", "marina", "q3"),
    ChoiceNode("q3", <<sets(Choice_new("ending_good"), "affection", 5),
        sets(Choice_new("ending_great"), "affection", 4),
        sets(Choice_new("ending_meh"), "affection", 1)>>),
    text_node("ending_good", "marina", "end"),
    text_node("ending_great", "marina", "end"),
    text_node("ending_meh", "marina", "end"),
    EndNode("end") >>)

build_marina_date2 ==
  build_unchecked("start", <<
    text_node("start", "marina", "q1"),
    ChoiceNode("q1", <<sets(Choice_new("q1_ask"), "affection", 3),
        sets(Choice_new("q1_name"), "affection", 5),
        sets(Choice_new("q1_concern"), "affection", 2)>>),
    text_node("q1_ask", "marina", "q2"),
    text_node("q1_name", "marina", "q2"),
    text_node("q1_concern", "marina", "q2"),
    ChoiceNode("q2", <<sets(Choice_new("q2_aftermath"), "affection", 4),
        sets(Choice_new("q2_challenge"), "affection", 5),
        sets(Choice_new("q2_date"), "affection", 1)>>),
    text_node("q2_aftermath", "marina", "q3"),
    text_node("q2_challenge", "marina", "q3"),
    text_node("q2_date", "marina", "q3"),
    ChoiceNode("q3", <<sets(Choice_new("ending_good"), "affection", 6),
        sets(Choice_new("ending_great"), "affection", 5),
        sets(Choice_new("ending_meh"), "affection", 1)>>),
    text_node("ending_good", "marina", "end"),
    text_node("ending_great", "marina", "end"),
    text_node("ending_meh", "marina", "end"),
    EndNode("end") >>)

build_marina_date3 ==
  build_unchecked("start", <<
    text_node("start", "marina", "q1"),
    ChoiceNode("q1", <<sets(Choice_new("q1_outrage"), "affection", 5),
        sets(Choice_new("q1_fair"), "affection", 3),
        sets(Choice_new("q1_hobbies"), "affection", 1)>>),
    text_node("q1_outrage", "marina", "q2"),
    text_node("q1_fair", "marina", "q2"),
    text_node("q1_hobbies", "marina", "q2"),
    ChoiceNode("q2", <<sets(Choice_new("q2_league"), "affection", 6),
        sets(Choice_new("q2_profound"), "affection", 5),
        sets(Choice_new("q2_normal"), "affection", 2)>>),
    text_node("q2_league", "marina", "q3"),
    text_node("q2_profound", "marina", "q3"),
    text_node("q2_normal", "marina", "q3"),
    ChoiceNode("q3", <<sets(Choice_new("ending_good"), "affection", 7),
        sets(Choice_new("ending_great"), "affection", 6),
        sets(Choice_new("ending_meh"), "affection", 2)>>),
    text_node("ending_good", "marina", "end"),
    text_node("ending_great", "marina", "end"),
    text_node("ending_meh", "marina", "end"),
    EndNode("end") >>)

build_gill_date1 ==
  build_unchecked("start", <<
    text_node("start", "gill", "q1"),
    ChoiceNode("q1", <<sets(Choice_new("q1_kind"), "affection", 4),
        sets(Choice_new("q1_cute"), "affection", 3),
        sets(Choice_new("q1_confused"), "affection", 2)>>),
    text_node("q1_kind", "gill", "q2"),
    text_node("q1_cute", "gill", "q2"),
    text_node("q1_confused", "gill", "q2"),
    ChoiceNode("q2", <<sets(Choice_new("q2_deep"), "affection", 5),
        sets(Choice_new("q2_place"), "affection", 3),
        sets(Choice_new("q2_question"), "affection", 2)>>),
    text_node("q2_deep", "gill", "q3"),
    text_node("q2_place", "gill", "q3"),
    text_node("q2_question", "gill", "q3"),
    ChoiceNode("q3", <<sets(Choice_new("ending_good"), "affection", 6),
        sets(Choice_new("ending_great"), "affection", 4),
        sets(Choice_new("ending_meh"), "affection", 1)>>),
    text_node("ending_good", "gill", "end"),
    text_node("ending_great", "gill", "end"),
    text_node("ending_meh", "gill", "end"),
    EndNode("end") >>)

build_gill_date2 ==
  build_unchecked("start", <<
    text_node("start", "gill", "q1"),
    ChoiceNode("q1", <<sets(Choice_new("q1_support"), "affection", 4),
        sets(Choice_new("q1_hype"), "affection", 5),
        sets(Choice_new("q1_unsure"), "affection", 2)>>),
    text_node("q1_support", "gill", "q2"),
    text_node("q1_hype", "gill", "q2"),
    text_node("q1_unsure", "gill", "q2"),
    ChoiceNode("q2", <<sets(Choice_new("q2_read"), "affection", 5),
        sets(Choice_new("q2_hate"), "affection", 3),
        sets(Choice_new("q2_encourage"), "affection", 4)>>),
    text_node("q2_read", "gill", "q3"),
    text_node("q2_hate", "gill", "q3"),
    text_node("q2_encourage", "gill", "q3"),
    ChoiceNode("q3", <<sets(Choice_new("ending_good"), "affection", 7),
        sets(Choice_new("ending_great"), "affection", 5),
        sets(Choice_new("ending_meh"), "affection", 1)>>),
    text_node("ending_good", "gill", "end"),
    text_node("ending_great", "gill", "end"),
    text_node("ending_meh", "gill", "end"),
    EndNode("end") >>)

build_gill_date3 ==
  build_unchecked("start", <<
    text_node("start", "gill", "q1"),
    ChoiceNode("q1", <<sets(Choice_new("q1_calm"), "affection", 4),
        sets(Choice_new("q1_famous"), "affection", 5),
        sets(Choice_new("q1_validate"), "affection", 6)>>),
    text_node("q1_calm", "gill", "q2"),
    text_node("q1_famous", "gill", "q2"),
    text_node("q1_validate", "gill", "q2"),
    ChoiceNode("q2", <<sets(Choice_new("q2_list"), "affection", 6),
        sets(Choice_new("q2_philosopher"), "affection", 5),
        sets(Choice_new("q2_worry"), "affection", 3)>>),
    text_node("q2_list", "gill", "q3"),
    text_node("q2_philosopher", "gill", "q3"),
    text_node("q2_worry", "gill", "q3"),
    ChoiceNode("q3", <<sets(Choice_new("ending_good"), "affection", 8),
        sets(Choice_new("ending_great"), "affection", 6),
        sets(Choice_new("ending_meh"), "affection", 1)>>),
    text_node("ending_good", "gill", "end"),
    text_node("ending_great", "gill", "end"),
    text_node("ending_meh", "gill", "end"),
    EndNode("end") >>)

\* ----------------------------------------------- plugins/fish_def.rs

\* FishDef::fallback_dialogue: one greeting, one two-option choice, one
\* farewell.
fallback_dialogue(name) ==
  build_unchecked("start", <<
    TextNode("start", Some(name), 1, Some("q1")),
    ChoiceNode("q1", <<sets(Choice_new("ending"), "affection", 3),
        sets(Choice_new("ending"), "affection", 2)>>),
    TextNode("ending", Some(name), 1, Some("end")),
    EndNode("end") >>)

\* FishDef::dialogue_for_date: the trees rotate by date number.
dialogue_for_date(fish, date_number) ==
  IF fish.dialogues = <<>> THEN fallback_dialogue(fish.name)
  ELSE fish.dialogues[(date_number % Len(fish.dialogues)) + 1]

\* Mutant: the date number is taken as counting from one.
build_dialogue_one_based(fish_id, date_number, reg) ==
  LET variant == (date_number + 1) % DIALOGUES_PER_FISH IN
  CASE fish_id = Bubbles ->
         (IF variant = 0 THEN build_bubbles_date1
          ELSE IF variant = 1 THEN build_bubbles_date2 ELSE build_bubbles_date3)
    [] fish_id = Marina ->
         (IF variant = 0 THEN build_marina_date1
          ELSE IF variant = 1 THEN build_marina_date2 ELSE build_marina_date3)
    [] fish_id = Gill ->
         (IF variant = 0 THEN build_gill_date1
          ELSE IF variant = 1 THEN build_gill_date2 ELSE build_gill_date3)
    [] OTHER ->
         (IF get(reg, fish_id.id) # None
            THEN dialogue_for_date(Unwrap(get(reg, fish_id.id)), date_number + 1)
            ELSE fallback_dialogue(FishId_name(fish_id)))

\* build_dialogue: the tree for a fish and a date number.
build_dialogue(fish_id, date_number, reg) ==
  LET variant == date_number % DIALOGUES_PER_FISH IN
  CASE fish_id = Bubbles ->
         (IF variant = 0 THEN build_bubbles_date1
          ELSE IF variant = 1 THEN build_bubbles_date2 ELSE build_bubbles_date3)
    [] fish_id = Marina ->
         (IF variant = 0 THEN build_marina_date1
          ELSE IF variant = 1 THEN build_marina_date2 ELSE build_marina_date3)
    [] fish_id = Gill ->
         (IF variant = 0 THEN build_gill_date1
          ELSE IF variant = 1 THEN build_gill_date2 ELSE build_gill_date3)
    [] OTHER ->
         (IF get(reg, fish_id.id) # None
            THEN dialogue_for_date(Unwrap(get(reg, fish_id.id)), date_number)
            ELSE fallback_dialogue(FishId_name(fish_id)))

\* ---------------------------------------------------- ui/menu.rs

SelectionMenu_new(items) == [items |-> items, selected |-> 0]

move_up(menu) ==
  IF menu.selected > 0 THEN [menu EXCEPT !.selected = @ - 1] ELSE menu

move_down(menu) ==
  IF menu.selected + 1 < Len(menu.items) THEN [menu EXCEPT !.selected = @ + 1] ELSE menu

selected_index(menu) == menu.selected

\* -------------------------------------------------- dating/scene.rs

\* new_value.parse::<i32>(): Option of the parsed value.
ParseI32(new_value) == IF new_value \in I32 THEN Some(new_value) ELSE None

\* Mutant: every polled event is tallied twice.
RECURSIVE drain_events_twice(_, _)
drain_events_twice(events, affection_gained) ==
  IF events = <<>> THEN affection_gained
  ELSE LET event == Head(events) IN
       drain_events_twice(Tail(events),
                          IF event.name = "affection" /\ ParseI32(event.new_value) # None
                            THEN affection_gained + 2 * Unwrap(ParseI32(event.new_value))
                            ELSE affection_gained)

\* The drain loop of sync_state over the polled events, oldest first: every
\* VariableChanged of "affection" adds its parsed new_value to the tally.
RECURSIVE drain_events(_, _)
drain_events(events, affection_gained) ==
  IF events = <<>> THEN affection_gained
  ELSE LET event == Head(events) IN
       drain_events(Tail(events),
                    IF event.name = "affection" /\ ParseI32(event.new_value) # None
                      THEN affection_gained + Unwrap(ParseI32(event.new_value))
                      ELSE affection_gained)

\* sync_state, first half: poll the Runner's events until none is left,
\* tallying the affection.
sync_drain(self) ==
  [self EXCEPT !.affection_gained = drain_events(self.runner.events, @),
               !.runner.events = <<>>]

\* sync_state, the Text arm: show the speaker and the text, no menu, restart
\* the typewriter.
mirror_text(self, cur) ==
  [self EXCEPT !.current_speaker = cur.speaker,
               !.current_text = cur.text,
               !.choice_menu = None,
               !.typewriter_pos = 0,
               !.typewriter_timer = 0]

\* sync_state, the Choices arm: show the prompt and a fresh menu of the
\* option texts.
mirror_choices(self, cur) ==
  [self EXCEPT !.current_text = cur.prompt,
               !.current_speaker = None,
               !.choice_menu =
                  Some(SelectionMenu_new([i \in DOMAIN cur.choices |-> cur.choices[i].text])),
               !.typewriter_pos = 0,
               !.typewriter_timer = 0]

\* sync_state, the End | None arm.
mirror_end(self) == [self EXCEPT !.ended = TRUE]

\* Mutant: the polled events are tallied but stay queued.
sync_state_events_kept(self) ==
  LET drained == [self EXCEPT !.affection_gained = drain_events(self.runner.events, @)]
      cur == current(drained.runner)
  IN IF cur # None /\ Unwrap(cur).kind = "Text" THEN mirror_text(drained, Unwrap(cur))
     ELSE IF cur # None /\ Unwrap(cur).kind = "Choices"
       THEN mirror_choices(drained, Unwrap(cur))
     ELSE mirror_end(drained)

\* Mutant: an End node does not end the scene (only an unresolved node does).
sync_state_end_unmarked(self) ==
  LET drained == sync_drain(self)
      cur == current(drained.runner)
  IN IF cur # None /\ Unwrap(cur).kind = "Text" THEN mirror_text(drained, Unwrap(cur))
     ELSE IF cur # None /\ Unwrap(cur).kind = "Choices"
       THEN mirror_choices(drained, Unwrap(cur))
     ELSE IF cur = None THEN mirror_end(drained)
     ELSE drained

\* Mutant: an unresolved node does not end the scene (only an End node does).
sync_state_none_unmarked(self) ==
  LET drained == sync_drain(self)
      cur == current(drained.runner)
  IN IF cur # None /\ Unwrap(cur).kind = "Text" THEN mirror_text(drained, Unwrap(cur))
     ELSE IF cur # None /\ Unwrap(cur).kind = "Choices"
       THEN mirror_choices(drained, Unwrap(cur))
     ELSE IF cur # None THEN mirror_end(drained)
     ELSE drained

\* Mutant: the Choices arm shows the prompt but builds no menu.
sync_state_menu_unbuilt(self) ==
  LET drained == sync_drain(self)
      cur == current(drained.runner)
  IN IF cur # None /\ Unwrap(cur).kind = "Text" THEN mirror_text(drained, Unwrap(cur))
     ELSE IF cur # None /\ Unwrap(cur).kind = "Choices"
       THEN [mirror_choices(drained, Unwrap(cur)) EXCEPT !.choice_menu = None]
     ELSE mirror_end(drained)

\* DatingState::sync_state: drain the Runner's events, then mirror the
\* Runner's current() into the scene.
sync_state(self) ==
  LET drained == sync_drain(self)
      cur == current(drained.runner)
  IN IF cur # None /\ Unwrap(cur).kind = "Text" THEN mirror_text(drained, Unwrap(cur))
     ELSE IF cur # None /\ Unwrap(cur).kind = "Choices"
       THEN mirror_choices(drained, Unwrap(cur))
     ELSE mirror_end(drained)

\* DatingState::new
DatingState_new(fish_id, date_number, reg) ==
  sync_state([fish_id |-> fish_id,
              runner |-> DialogueRunner_new(build_dialogue(fish_id, date_number, reg)),
              current_text |-> 0, current_speaker |-> None, choice_menu |-> None,
              affection_gained |-> 0, ended |-> FALSE,
              typewriter_pos |-> 0, typewriter_timer |-> 0])

\* The keys a frame may carry: one of each group the handlers tell apart (KeyW
\* and KeyS do what the arrows do), and one key no handler knows.
KeyCodes == {"Enter", "Space", "ArrowUp", "ArrowDown", "Escape", "KeyM"}
KeyInputs == {None} \cup {Some(k) : k \in KeyCodes}
Confirm == {"Enter", "Space"}

\* GameScreen values.
MainMenuScreen == [tag |-> "MainMenu"]
DateSelectScreen == [tag |-> "DateSelect"]
DatingScreen(state) == [tag |-> "Dating", state |-> state]
DateResultScreen(fish_id, affection) ==
  [tag |-> "DateResult", fish_id |-> fish_id, affection |-> affection]
GameOverScreen == [tag |-> "GameOver"]

\* What update called on the Runner (history only).
NoCall == [call |-> "none", index |-> 0, res |-> "none", polled |-> <<>>]

\* DatingState::update(dt, key): the scene after the frame, the screen it asks
\* for (Option<GameScreen>), and the Runner call it made. dt is in
\* typewriter ticks and the timer saturates at TimerCap.
\* Mutant: a refused selection is taken for the end of the dialogue.
confirm_choice_error_ends(s0, menu) ==
  LET idx == selected_index(menu)
      sc == select_choice(s0.runner, idx)
      synced == sync_state([s0 EXCEPT !.runner = sc.runner])
  IN [state |-> IF sc.res = "Ok" THEN synced ELSE [synced EXCEPT !.ended = TRUE],
      ret |-> None,
      trace |-> [call |-> "select_choice", index |-> idx,
                 res |-> sc.res, polled |-> sc.runner.events]]

\* DatingState::update, Enter or Space at the choice menu: the selected index
\* goes to select_choice, its result is dropped, and the scene is synced.
confirm_choice(s0, menu) ==
  LET idx == selected_index(menu)
      sc == select_choice(s0.runner, idx)
  IN [state |-> sync_state([s0 EXCEPT !.runner = sc.runner]),
      ret |-> None,
      trace |-> [call |-> "select_choice", index |-> idx,
                 res |-> sc.res, polled |-> sc.runner.events]]

update(self, dt, key) ==
  LET timer == Min(self.typewriter_timer + dt, TimerCap)
      s0 == [self EXCEPT !.typewriter_timer = timer, !.typewriter_pos = timer]
  IN
  IF s0.ended THEN
    [state |-> s0,
     ret |-> IF key # None /\ Unwrap(key) \in Confirm
               THEN Some(DateResultScreen(s0.fish_id, s0.affection_gained))
               ELSE None,
     trace |-> NoCall]
  ELSE IF key = None THEN [state |-> s0, ret |-> None, trace |-> NoCall]
  ELSE IF s0.choice_menu # None THEN
    LET menu == Unwrap(s0.choice_menu)
        k == Unwrap(key)
    IN IF k \in {"ArrowUp", "KeyW"}
         THEN [state |-> [s0 EXCEPT !.choice_menu = Some(move_up(menu))],
               ret |-> None, trace |-> NoCall]
       ELSE IF k \in {"ArrowDown", "KeyS"}
         THEN [state |-> [s0 EXCEPT !.choice_menu = Some(move_down(menu))],
               ret |-> None, trace |-> NoCall]
       ELSE IF k \in Confirm
         THEN confirm_choice(s0, menu)
       ELSE [state |-> s0, ret |-> None, trace |-> NoCall]
  ELSE
    LET k == Unwrap(key) IN
    IF k \in Confirm
      THEN IF s0.typewriter_pos < s0.current_text
             THEN [state |-> [s0 EXCEPT !.typewriter_pos = s0.current_text],
                   ret |-> None, trace |-> NoCall]
             ELSE LET ad == advance(s0.runner)
                  IN [state |-> sync_state([s0 EXCEPT !.runner = ad.runner]),
                      ret |-> None,
                      trace |-> [call |-> "advance", index |-> 0, res |-> ad.res,
                                 polled |-> ad.runner.events]]
    ELSE IF k = "Escape"
      THEN [state |-> s0,
            ret |-> Some(DateResultScreen(s0.fish_id, s0.affection_gained)),
            trace |-> NoCall]
    ELSE [state |-> s0, ret |-> None, trace |-> NoCall]

\* -------------------------------------------------- easter_egg.rs

\* SecretSequence: the target keys and the progress through them.
MOON_TARGET == <<"KeyM", "KeyO", "KeyO", "KeyN">>

SecretSequence_new == [progress |-> 0]

\* Mutant: a wrong key always sends the detector back to the start.
feed_no_restart(s, key) ==
  IF s.progress + 1 \notin DOMAIN MOON_TARGET
    THEN [state |-> s, ret |-> FALSE, panic |-> TRUE]
  ELSE IF key = MOON_TARGET[s.progress + 1]
    THEN IF s.progress + 1 >= Len(MOON_TARGET)
           THEN [state |-> [progress |-> 0], ret |-> TRUE, panic |-> FALSE]
           ELSE [state |-> [progress |-> s.progress + 1], ret |-> FALSE, panic |-> FALSE]
  ELSE [state |-> [progress |-> 0], ret |-> FALSE, panic |-> FALSE]

\* SecretSequence::feed: the detector after the key and the value returned.
\* target[progress] panics when progress is outside the target.
feed(s, key) ==
  IF s.progress + 1 \notin DOMAIN MOON_TARGET
    THEN [state |-> s, ret |-> FALSE, panic |-> TRUE]
  ELSE IF key = MOON_TARGET[s.progress + 1]
    THEN IF s.progress + 1 >= Len(MOON_TARGET)
           THEN [state |-> [progress |-> 0], ret |-> TRUE, panic |-> FALSE]
           ELSE [state |-> [progress |-> s.progress + 1], ret |-> FALSE, panic |-> FALSE]
  ELSE [state |-> [progress |-> IF key = MOON_TARGET[1] THEN 1 ELSE 0],
        ret |-> FALSE, panic |-> FALSE]

\* SecretSequence::reset
reset(s) == [s EXCEPT !.progress = 0]

\* Phase of the moon battle; Clash carries its frame number.
MoonPhase(name) == [name |-> name, n |-> 0]
Clash(n) == [name |-> "Clash", n |-> n]

\* MoonBattleState::new. Times are in frame ticks and saturate at TimerCap;
\* shake is in thousandths.
MoonBattleState_new ==
  [phase |-> MoonPhase("Stargazing"), phase_timer |-> 0, total_time |-> 0,
   clash_cycles |-> 0, shake |-> 0, victory_just_reached |-> FALSE]

\* Mutant: the battle is won after three clashes.
advance_phase_short(self) ==
  LET s == [self EXCEPT !.phase_timer = 0] IN
  CASE s.phase.name = "Stargazing" -> [s EXCEPT !.phase = MoonPhase("Lasso")]
    [] s.phase.name = "Lasso" -> [s EXCEPT !.phase = MoonPhase("Capture")]
    [] s.phase.name = "Capture" ->
         [s EXCEPT !.shake = 1000, !.phase = MoonPhase("MoonFalls")]
    [] s.phase.name = "MoonFalls" -> [s EXCEPT !.phase = MoonPhase("DrawSwords")]
    [] s.phase.name = "DrawSwords" -> [s EXCEPT !.shake = 1000, !.phase = Clash(0)]
    [] s.phase.name = "Clash" ->
         IF s.clash_cycles + 1 >= 3
           THEN [s EXCEPT !.shake = 1000, !.clash_cycles = @ + 1,
                          !.victory_just_reached = TRUE, !.phase = MoonPhase("Victory")]
           ELSE [s EXCEPT !.shake = 1000, !.clash_cycles = @ + 1,
                          !.phase = Clash((s.phase.n + 1) % 3)]
    [] OTHER -> s

\* MoonBattleState::advance_phase
advance_phase(self) ==
  LET s == [self EXCEPT !.phase_timer = 0] IN
  CASE s.phase.name = "Stargazing" -> [s EXCEPT !.phase = MoonPhase("Lasso")]
    [] s.phase.name = "Lasso" -> [s EXCEPT !.phase = MoonPhase("Capture")]
    [] s.phase.name = "Capture" ->
         [s EXCEPT !.shake = 1000, !.phase = MoonPhase("MoonFalls")]
    [] s.phase.name = "MoonFalls" -> [s EXCEPT !.phase = MoonPhase("DrawSwords")]
    [] s.phase.name = "DrawSwords" -> [s EXCEPT !.shake = 1000, !.phase = Clash(0)]
    [] s.phase.name = "Clash" ->
         IF s.clash_cycles + 1 >= 4
           THEN [s EXCEPT !.shake = 1000, !.clash_cycles = @ + 1,
                          !.victory_just_reached = TRUE, !.phase = MoonPhase("Victory")]
           ELSE [s EXCEPT !.shake = 1000, !.clash_cycles = @ + 1,
                          !.phase = Clash((s.phase.n + 1) % 3)]
    [] OTHER -> s

\* The keys that advance the moon battle.
MoonAdvanceKeys == {"Enter", "Space", "ArrowRight", "ArrowDown"}

\* MoonBattleState::update: the state after the frame and the screen asked
\* for.
MoonBattleState_update(self, dt, key) ==
  LET s0 == [self EXCEPT !.total_time = Min(@ + dt, TimerCap),
                         !.phase_timer = Min(@ + dt, TimerCap),
                         !.shake = (@ * 9) \div 10]
  IN IF key = Some("Escape") THEN [state |-> s0, ret |-> Some(MainMenuScreen)]
     ELSE IF key # None /\ Unwrap(key) \in MoonAdvanceKeys
       THEN IF s0.phase.name = "Victory"
              THEN [state |-> s0, ret |-> Some(MainMenuScreen)]
              ELSE [state |-> advance_phase(s0), ret |-> None]
     ELSE [state |-> s0, ret |-> None]

\* -------------------------------------------------- fishing/minigame.rs

\* Lengths, forces and probabilities are in thousandths, times in
\* milliseconds; a product of two such values is scaled back by 1000.
MulK(a, b) == (a * b) \div 1000
Abs(a) == IF a < 0 THEN -a ELSE a
Clamp(a, lo, hi) == IF a < lo THEN lo ELSE IF a > hi THEN hi ELSE a

\* The longest frame: main.rs caps dt at 0.1 s.
FrameMs == 100

SNAP_THRESHOLD == 1000
CENTER_ZONE == 200
REEL_TARGET == 5000
REEL_DRAIN_RATE == 300
PLAYER_FORCE == 1800
VELOCITY_DAMPING == 3000

\* GameScreen values of the fishing side.
FishingPondSelectScreen == [tag |-> "FishingPondSelect"]
FishingMinigameScreen(state) == [tag |-> "FishingMinigame", state |-> state]
CatchResultScreen(fish_id, pond_index, size) ==
  [tag |-> "CatchResult", fish_id |-> fish_id, pond_index |-> pond_index, size |-> size]

\* FishId::difficulty (the registry is not asked).
difficulty(fish_id) ==
  CASE fish_id.variant = "Bubbles" -> 300
    [] fish_id.variant = "Marina" -> 600
    [] fish_id.variant = "Gill" -> 450
    [] OTHER -> 500

\* MinigameState::new. rng holds the three random draws: wait and change in
\* 0..999 (a float in [0, 1)), dir a boolean.
MinigameState_new(fish_id, pond_index, rng) ==
  LET fish_aggression == 300 + MulK(difficulty(fish_id), 700) IN
  [fish_id |-> fish_id, pond_index |-> pond_index, phase |-> "Casting", timer |-> 0,
   line_pos |-> 0, line_vel |-> 0, reel_progress |-> 0, caught |-> FALSE,
   fish_size |-> "Medium", wait_duration |-> MulK(rng.wait, 2000) + 1000,
   fish_aggression |-> fish_aggression,
   fish_dir |-> IF rng.dir THEN 1000 ELSE -1000,
   fish_force |-> MulK(fish_aggression, 500),
   fish_change_timer |-> MulK(rng.change, 500) + 300,
   fish_erratic |-> 300 + MulK(difficulty(fish_id), 500),
   tension_shake |-> 0, holding_left |-> FALSE, holding_right |-> FALSE]

\* update_reeling, the fish AI: when its timer runs out the fish changes
\* behaviour. rng holds the draws of this frame: interval, surge, strength and
\* drift in 0..999, flip and flee booleans.
\* The new behaviour: a surge, a reversal or a drift.
fish_ai_behaviour(s2, rng) ==
  IF rng.surge < 200
    THEN [s2 EXCEPT !.fish_dir = IF rng.flip THEN 1000 ELSE -1000,
                    !.fish_force = MulK(s2.fish_aggression, 1200 + MulK(rng.strength, 800)),
                    !.tension_shake = 500]
  ELSE IF rng.surge < 500
    THEN [s2 EXCEPT !.fish_dir = -s2.fish_dir,
                    !.fish_force = MulK(s2.fish_aggression, 400 + MulK(rng.strength, 500))]
  ELSE [s2 EXCEPT !.fish_force = MulK(s2.fish_aggression, 200 + MulK(rng.strength, 400)),
                  !.fish_dir = Clamp(s2.fish_dir + MulK(rng.drift - 500, 400), -1000, 1000)]

\* A fish near the centre pulls away harder.
fish_ai_flee(s3, rng) ==
  IF Abs(s3.line_pos) < 150
    THEN [s3 EXCEPT !.fish_dir = IF rng.flee THEN 1000 ELSE -1000,
                    !.fish_force = MulK(s3.fish_force, 1300)]
    ELSE s3

\* The timer of the next change: a random share of the base interval.
fish_ai_retime(s1, rng) ==
  [s1 EXCEPT !.fish_change_timer =
     MulK(rng.interval, 800 - MulK(s1.fish_erratic, 500)) + 150]

fish_ai_tick(s1, rng) ==
  IF s1.fish_change_timer > 0 THEN s1
  ELSE fish_ai_flee(fish_ai_behaviour(fish_ai_retime(s1, rng), rng), rng)

fish_ai(self, dt, rng) ==
  fish_ai_tick([self EXCEPT !.fish_change_timer = @ - dt], rng)

\* update_reeling, the end of the frame: the fish is landed, the line snaps,
\* the time runs out, or the fight goes on.
reel_outcome(s2, dist_from_center) ==
  IF s2.reel_progress >= REEL_TARGET
    THEN [s2 EXCEPT !.fish_size =
                      IF (s2.reel_progress * 1000) \div Max(s2.timer, 100) > 850 THEN "Large"
                      ELSE IF (s2.reel_progress * 1000) \div Max(s2.timer, 100) > 500
                        THEN "Medium"
                      ELSE "Small",
                    !.caught = TRUE, !.phase = "Result", !.timer = 0]
  ELSE IF dist_from_center >= SNAP_THRESHOLD
    THEN [s2 EXCEPT !.caught = FALSE, !.phase = "Result", !.timer = 0]
  ELSE IF s2.timer > 30000
    THEN [s2 EXCEPT !.caught = FALSE, !.phase = "Result", !.timer = 0]
  ELSE s2

\* update_reeling, the reel: progress grows near the centre and drains away
\* from it.
reel_progress_at(s1, dist_from_center, dt) ==
  IF dist_from_center < CENTER_ZONE
    THEN s1.reel_progress + MulK(1000 - (dist_from_center * 1000) \div CENTER_ZONE, dt)
    ELSE Max(s1.reel_progress - MulK(REEL_DRAIN_RATE, dt), 0)

\* update_reeling, the physics: the new position follows the damped velocity.
reel_place(s1, vel2, pos, dt) ==
  reel_outcome([s1 EXCEPT !.line_vel = vel2, !.line_pos = pos,
                          !.tension_shake = MulK(@, Max(1000 - 4 * dt, 0)),
                          !.reel_progress = reel_progress_at(s1, Abs(pos), dt)],
               Abs(pos))
reel_damp(s1, vel2, dt) == reel_place(s1, vel2, s1.line_pos + MulK(vel2, dt), dt)
reel_accelerate(s1, vel1, dt) ==
  reel_damp(s1, vel1 - MulK(MulK(vel1, VELOCITY_DAMPING), dt), dt)
reel_pull(s1, player_impulse, dt) ==
  reel_accelerate(s1, s1.line_vel + MulK(MulK(s1.fish_dir, s1.fish_force) + player_impulse, dt),
                  dt)

\* The force of the keys held in this frame.
player_impulse(self, key) ==
  (IF self.holding_left \/ (key # None /\ Unwrap(key) \in {"KeyA", "ArrowLeft"})
     THEN -PLAYER_FORCE ELSE 0)
    + (IF self.holding_right \/ (key # None /\ Unwrap(key) \in {"KeyD", "ArrowRight"})
         THEN PLAYER_FORCE ELSE 0)

\* MinigameState::update_reeling (self.timer already counts this frame).
update_reeling(self, dt, key, rng) ==
  reel_pull(fish_ai([self EXCEPT !.holding_left = FALSE, !.holding_right = FALSE], dt, rng),
            player_impulse(self, key), dt)

\* MinigameState::update, the phase of the frame.
update_phase(t, dt, key, rng) ==
  CASE t.phase = "Casting" ->
         (IF t.timer > 1500 THEN [t EXCEPT !.phase = "Waiting", !.timer = 0] ELSE t)
    [] t.phase = "Waiting" ->
         (IF t.timer > t.wait_duration
            THEN [t EXCEPT !.phase = "Reeling", !.timer = 0] ELSE t)
    [] t.phase = "Reeling" -> update_reeling(t, dt, key, rng)
    [] OTHER -> t

\* MinigameState::update, the keys: t is the state the frame began with (its
\* timer advanced) and s the state after the phase ran.
update_keys(t, s, key) ==
  IF t.phase = "Result" /\ key # None /\ Unwrap(key) \in {"Enter", "Space"}
    THEN [state |-> s,
          ret |-> IF t.caught
                    THEN Some(CatchResultScreen(t.fish_id, t.pond_index, t.fish_size))
                    ELSE Some(FishingPondSelectScreen)]
  ELSE IF t.phase = "Result" /\ key = Some("Escape")
    THEN [state |-> s, ret |-> Some(FishingPondSelectScreen)]
  ELSE IF s.phase # "Result" /\ key = Some("Escape")
    THEN [state |-> s, ret |-> Some(FishingPondSelectScreen)]
  ELSE [state |-> s, ret |-> None]

update_timed(t, dt, key, rng) == update_keys(t, update_phase(t, dt, key, rng), key)

\* MinigameState::update: the state after the frame and the screen asked for.
\* In the Result phase the timer only feeds the drawing and saturates.
MinigameState_update(self, dt, key, rng) ==
  update_timed([self EXCEPT !.timer = IF self.phase = "Result"
                                        THEN Min(@ + dt, TimerCap * FrameMs) ELSE @ + dt],
               dt, key, rng)

\* -------------------------------------------------- fishing/pond.rs

\* ascii_art::POND_NAMES
POND_NAMES == <<"Sunny Shallows", "Misty Depths", "Crystal Cove">>

\* FishDef.pond_name: the loader's default, the fish's name and "'s Pond".
pond_name(fish) == <<fish.name, "'s Pond">>

\* FishRegistry::pond_names: the pond of every plugin fish, in load order.
pond_names(reg) ==
  [i \in DOMAIN plugin_ids(reg) |-> pond_name(Unwrap(get(reg, plugin_ids(reg)[i])))]

\* PondSelectState::new
PondSelectState_new(reg) ==
  [menu |-> SelectionMenu_new(POND_NAMES \o pond_names(reg)),
   fish_map |-> all_with_plugins(reg)]

\* PondSelectState::update: the state after the key and the screen asked for.
PondSelectState_update(self, key, rng) ==
  IF key \in {"ArrowUp", "KeyW"}
    THEN [state |-> [self EXCEPT !.menu = move_up(@)], ret |-> None]
  ELSE IF key \in {"ArrowDown", "KeyS"}
    THEN [state |-> [self EXCEPT !.menu = move_down(@)], ret |-> None]
  ELSE IF key \in {"Enter", "Space"}
    THEN LET pond_idx == selected_index(self.menu) IN
         IF pond_idx + 1 \in DOMAIN self.fish_map
           THEN [state |-> self,
                 ret |-> Some(FishingMinigameScreen(
                           MinigameState_new(self.fish_map[pond_idx + 1], pond_idx, rng)))]
           ELSE [state |-> self, ret |-> None]
  ELSE IF key = "Escape" THEN [state |-> self, ret |-> Some(MainMenuScreen)]
  ELSE [state |-> self, ret |-> None]

\* ------------------------------------------------------ achievements.rs

\* AchievementTracker::unlock, the local part: the id joins the set.
unlock(unlocked, id) == unlocked \cup {id}

\* AchievementTracker::check_state: every state-driven condition that holds
\* unlocks its id. No code of the game constructs a tracker or calls this.
check_state(p, reg) ==
  LET all_fish == all_with_plugins(reg)
      all_caught == all_fish # <<>> /\ \A i \in DOMAIN all_fish : has_caught(p, all_fish[i])
      all_friends == all_fish # <<>>
                       /\ \A i \in DOMAIN all_fish : relationship(p, all_fish[i]) >= 6
      has_plugin_catch ==
        \E i \in DOMAIN p.fish_collection : p.fish_collection[i].id.variant = "Plugin"
      met == (IF Len(p.fish_collection) > 0 THEN {"ACH_FIRST_CATCH"} ELSE {})
               \cup (IF Len(p.fish_collection) >= 50 THEN {"ACH_CATCH_50"} ELSE {})
               \cup (IF all_caught THEN {"ACH_CATCH_ALL"} ELSE {})
               \cup (IF has_plugin_catch THEN {"ACH_PLUGIN_FISH"} ELSE {})
               \cup (IF p.dates_completed >= 1 THEN {"ACH_FIRST_DATE"} ELSE {})
               \cup (IF p.dates_completed >= 10 THEN {"ACH_DATE_10"} ELSE {})
               \cup (IF has_won(p) THEN {"ACH_SOULMATE"} ELSE {})
               \cup (IF all_friends THEN {"ACH_ALL_FRIENDS"} ELSE {})
               \cup (IF p.current_day >= 30 THEN {"ACH_DAY_30"} ELSE {})
  IN [p EXCEPT !.achievements = @ \cup met]

\* ------------------------------------------------------------ game.rs

\* The caught fish among all fish, in all_with_plugins order.
RECURSIVE FilterCaught(_, _)
FilterCaught(p, fishes) ==
  IF fishes = <<>> THEN <<>>
  ELSE (IF has_caught(p, Head(fishes)) THEN <<Head(fishes)>> ELSE <<>>)
       \o FilterCaught(p, Tail(fishes))

dateable(p, reg) == FilterCaught(p, all_with_plugins(reg))

\* transition_to(DateSelect), the menu it builds: one line per dateable fish
\* (fish, relationship label and score); None when there is no fish to date.
date_select_items(p, reg) ==
  [i \in DOMAIN dateable(p, reg) |->
     [fish |-> dateable(p, reg)[i],
      label |-> relationship_label(relationship(p, dateable(p, reg)[i])),
      score |-> relationship(p, dateable(p, reg)[i])]]

\* transition_to(DateResult): the commit of a date into the player record.
commit_date(p, fish_id, affection) ==
  LET p1 == add_affection(p, fish_id, affection)
      p2 == increment_date_count(p1, fish_id)
  IN [p2 EXCEPT !.dates_completed = @ + 1, !.current_day = @ + 1]

\* Game::update_date_select: the menu after the key and the screen asked for.
update_date_select(menu_opt, p, reg, key) ==
  IF key = None \/ menu_opt = None THEN [menu |-> menu_opt, ret |-> None]
  ELSE LET menu == Unwrap(menu_opt)
           k == Unwrap(key)
       IN IF k \in {"ArrowUp", "KeyW"}
            THEN [menu |-> Some(move_up(menu)), ret |-> None]
          ELSE IF k \in {"ArrowDown", "KeyS"}
            THEN [menu |-> Some(move_down(menu)), ret |-> None]
          ELSE IF k \in Confirm
            THEN LET idx == selected_index(menu) IN
                 IF idx + 1 \in DOMAIN dateable(p, reg)
                   THEN [menu |-> menu_opt,
                         ret |-> Some(DatingScreen(DatingState_new(
                                   dateable(p, reg)[idx + 1],
                                   date_count(p, dateable(p, reg)[idx + 1]), reg)))]
                   ELSE [menu |-> menu_opt, ret |-> None]
          ELSE IF k = "Escape"
            THEN [menu |-> menu_opt, ret |-> Some(MainMenuScreen)]
          ELSE [menu |-> menu_opt, ret |-> None]

\* Game::update_date_result (and update_catch_result): Enter or Space leaves
\* for GameOver when the player has won, else for the main menu.
update_date_result(p, key) ==
  IF key # None /\ Unwrap(key) \in Confirm
    THEN IF has_won(p) THEN Some(GameOverScreen) ELSE Some(MainMenuScreen)
    ELSE None

\* The fields of Game that a frame can change, as one record; the step that
\* stores such a record back, and the initial condition that starts from one.
Self ==
  [screen |-> screen, player |-> player, date_select_menu |-> date_select_menu,
   menu |-> main_menu, pond_state |-> pond_state, collection_scroll |-> collection_scroll,
   moon_secret |-> moon_secret]

Becomes(g) ==
  /\ screen' = g.screen
  /\ player' = g.player
  /\ date_select_menu' = g.date_select_menu
  /\ main_menu' = g.menu
  /\ pond_state' = g.pond_state
  /\ collection_scroll' = g.collection_scroll
  /\ moon_secret' = g.moon_secret

Starts(g) ==
  /\ screen = g.screen
  /\ player = g.player
  /\ date_select_menu = g.date_select_menu
  /\ main_menu = g.menu
  /\ pond_state = g.pond_state
  /\ collection_scroll = g.collection_scroll
  /\ moon_secret = g.moon_secret

MoonBattleScreen(state) == [tag |-> "MoonBattle", state |-> state]
FishCollectionScreen == [tag |-> "FishCollection"]
\* std::process::exit(0): the process is gone and no frame follows.
ExitedScreen == [tag |-> "Exited"]

\* Game::rebuild_menu
rebuild_menu(p) ==
  SelectionMenu_new(
    <<"Go Fishing">>
      \o (IF p.fish_collection # <<>> THEN <<"Go on a Date", "Fish Collection">> ELSE <<>>)
      \o <<"Save Game", "Quit">>)

\* Game::new: loaded is what save::load_game returned and has_save whether
\* the save file exists.
Game_new(loaded, has_save) ==
  [screen |-> MainMenuScreen,
   player |-> IF loaded = None THEN PlayerState_default ELSE Unwrap(loaded),
   date_select_menu |-> None,
   menu |-> SelectionMenu_new(
              IF has_save
                THEN <<"Go Fishing", "Go on a Date", "Fish Collection", "New Game", "Quit">>
                ELSE <<"Go Fishing", "Quit">>),
   pond_state |-> None,
   collection_scroll |-> 0,
   moon_secret |-> SecretSequence_new]

\* transition_to(CatchResult): the catch goes into the collection with the
\* name of its pond, and the fish gets one point of affection.
commit_catch(p, fish_id, pond_index, size, reg) ==
  LET name == IF pond_index < Len(POND_NAMES) THEN POND_NAMES[pond_index + 1]
              ELSE IF pond_index - Len(POND_NAMES) + 1 \in DOMAIN pond_names(reg)
                THEN pond_names(reg)[pond_index - Len(POND_NAMES) + 1]
              ELSE "Unknown Pond"
  IN add_affection(add_catch(p, fish_id, name, size), fish_id, 1)

\* Mutant: the date commit also runs on the way to the main menu.
transition_to_commit_twice(g, new_screen) ==
  IF new_screen.tag = "DateResult"
    THEN [g EXCEPT !.player = commit_date(@, new_screen.fish_id, new_screen.affection),
                   !.screen = new_screen]
  ELSE IF new_screen.tag = "MainMenu" /\ g.screen.tag = "DateResult"
    THEN [g EXCEPT !.player = commit_date(@, g.screen.fish_id, g.screen.affection),
                   !.menu = rebuild_menu(commit_date(g.player, g.screen.fish_id,
                                                     g.screen.affection)),
                   !.moon_secret = reset(@), !.screen = new_screen]
  ELSE [g EXCEPT !.screen = new_screen]

\* Mutant: the date menu is entered whatever the collection holds.
transition_to_unchecked_date(g, new_screen) ==
  IF new_screen.tag = "MainMenu"
    THEN [g EXCEPT !.menu = rebuild_menu(g.player), !.moon_secret = reset(@),
                   !.screen = new_screen]
  ELSE IF new_screen.tag = "FishingPondSelect"
    THEN [g EXCEPT !.pond_state = Some(PondSelectState_new(registry)),
                   !.screen = new_screen]
  ELSE IF new_screen.tag = "DateSelect"
    THEN [g EXCEPT !.date_select_menu =
                     Some(SelectionMenu_new(date_select_items(g.player, registry))),
                   !.screen = new_screen]
  ELSE IF new_screen.tag = "CatchResult"
    THEN [g EXCEPT !.player = commit_catch(@, new_screen.fish_id, new_screen.pond_index,
                                           new_screen.size, registry),
                   !.screen = new_screen]
  ELSE IF new_screen.tag = "DateResult"
    THEN [g EXCEPT !.player = commit_date(@, new_screen.fish_id, new_screen.affection),
                   !.screen = new_screen]
  ELSE [g EXCEPT !.screen = new_screen]

\* Mutant: a finished date does not advance the day.
transition_to_same_day(g, new_screen) ==
  IF new_screen.tag = "MainMenu"
    THEN [g EXCEPT !.menu = rebuild_menu(g.player), !.moon_secret = reset(@),
                   !.screen = new_screen]
  ELSE IF new_screen.tag = "FishingPondSelect"
    THEN [g EXCEPT !.pond_state = Some(PondSelectState_new(registry)),
                   !.screen = new_screen]
  ELSE IF new_screen.tag = "DateSelect"
    THEN IF dateable(g.player, registry) = <<>>
           THEN [g EXCEPT !.menu = rebuild_menu(g.player), !.screen = MainMenuScreen]
           ELSE [g EXCEPT !.date_select_menu =
                            Some(SelectionMenu_new(date_select_items(g.player, registry))),
                          !.screen = new_screen]
  ELSE IF new_screen.tag = "CatchResult"
    THEN [g EXCEPT !.player = commit_catch(@, new_screen.fish_id, new_screen.pond_index,
                                           new_screen.size, registry),
                   !.screen = new_screen]
  ELSE IF new_screen.tag = "DateResult"
    THEN [g EXCEPT !.player = [commit_date(@, new_screen.fish_id, new_screen.affection)
                                 EXCEPT !.current_day = g.player.current_day],
                   !.screen = new_screen]
  ELSE [g EXCEPT !.screen = new_screen]

\* Game::transition_to: the side effects of entering a screen, then the
\* screen itself. Writing the save file is not modelled.
transition_to(g, new_screen) ==
  IF new_screen.tag = "MainMenu"
    THEN [g EXCEPT !.menu = rebuild_menu(g.player), !.moon_secret = reset(@),
                   !.screen = new_screen]
  ELSE IF new_screen.tag = "FishingPondSelect"
    THEN [g EXCEPT !.pond_state = Some(PondSelectState_new(registry)),
                   !.screen = new_screen]
  ELSE IF new_screen.tag = "DateSelect"
    THEN IF dateable(g.player, registry) = <<>>
           THEN [g EXCEPT !.menu = rebuild_menu(g.player), !.screen = MainMenuScreen]
           ELSE [g EXCEPT !.date_select_menu =
                            Some(SelectionMenu_new(date_select_items(g.player, registry))),
                          !.screen = new_screen]
  ELSE IF new_screen.tag = "CatchResult"
    THEN [g EXCEPT !.player = commit_catch(@, new_screen.fish_id, new_screen.pond_index,
                                           new_screen.size, registry),
                   !.screen = new_screen]
  ELSE IF new_screen.tag = "DateResult"
    THEN [g EXCEPT !.player = commit_date(@, new_screen.fish_id, new_screen.affection),
                   !.screen = new_screen]
  ELSE [g EXCEPT !.screen = new_screen]

\* Game::update_main_menu: the game after the key, the screen asked for, and
\* whether the process exits.
update_main_menu(g, key) ==
  IF key = None THEN [game |-> g, ret |-> None, exit |-> FALSE]
  ELSE
    LET k == Unwrap(key)
        fed == feed(g.moon_secret, k)
        g1 == [g EXCEPT !.moon_secret = fed.state]
    IN IF fed.ret
         THEN [game |-> g1, ret |-> Some(MoonBattleScreen(MoonBattleState_new)),
               exit |-> FALSE]
       ELSE IF k \in {"ArrowUp", "KeyW"}
         THEN [game |-> [g1 EXCEPT !.menu = move_up(@)], ret |-> None, exit |-> FALSE]
       ELSE IF k \in {"ArrowDown", "KeyS"}
         THEN [game |-> [g1 EXCEPT !.menu = move_down(@)], ret |-> None, exit |-> FALSE]
       ELSE IF k \in Confirm
         THEN LET selected == g1.menu.items[selected_index(g1.menu) + 1] IN
              CASE selected = "Go Fishing" ->
                     [game |-> g1, ret |-> Some(FishingPondSelectScreen), exit |-> FALSE]
                [] selected = "Go on a Date" ->
                     [game |-> g1, ret |-> Some(DateSelectScreen), exit |-> FALSE]
                [] selected = "Fish Collection" ->
                     [game |-> g1, ret |-> Some(FishCollectionScreen), exit |-> FALSE]
                [] selected = "New Game" ->
                     [game |-> [g1 EXCEPT !.player = PlayerState_default,
                                          !.menu = rebuild_menu(PlayerState_default)],
                      ret |-> None, exit |-> FALSE]
                [] selected = "Quit" -> [game |-> g1, ret |-> None, exit |-> TRUE]
                [] OTHER -> [game |-> g1, ret |-> None, exit |-> FALSE]
       ELSE IF k = "Escape" THEN [game |-> g1, ret |-> None, exit |-> TRUE]
       ELSE [game |-> g1, ret |-> None, exit |-> FALSE]

\* Mutant: the catch screen always leads back to the main menu.
update_catch_result_no_win(p, key) ==
  IF key # None /\ Unwrap(key) \in Confirm THEN Some(MainMenuScreen) ELSE None

\* Game::update_catch_result
update_catch_result(p, key) ==
  IF key # None /\ Unwrap(key) \in Confirm
    THEN IF has_won(p) THEN Some(GameOverScreen) ELSE Some(MainMenuScreen)
    ELSE None

\* Game::update_collection: the scroll position after the key and the screen
\* asked for.
update_collection(scroll, key) ==
  IF key = None THEN [scroll |-> scroll, ret |-> None]
  ELSE IF Unwrap(key) \in {"Escape", "Enter"}
    THEN [scroll |-> scroll, ret |-> Some(MainMenuScreen)]
  ELSE IF Unwrap(key) \in {"ArrowUp", "KeyW"}
    THEN [scroll |-> Max(scroll - 1, 0), ret |-> None]
  ELSE IF Unwrap(key) \in {"ArrowDown", "KeyS"}
    THEN [scroll |-> scroll + 1, ret |-> None]
  ELSE [scroll |-> scroll, ret |-> None]

\* Game::update_game_over: Enter or Space starts a new game.
update_game_over(g, key) ==
  IF key # None /\ Unwrap(key) \in Confirm
    THEN [game |-> [g EXCEPT !.player = PlayerState_default], ret |-> Some(MainMenuScreen)]
    ELSE [game |-> g, ret |-> None]

\* ------------------------------------------------- history of a date

\* The affection delta an option carries.
RECURSIVE OptionDelta(_, _)
OptionDelta(deltas, name) ==
  IF deltas = <<>> THEN 0
  ELSE (IF Head(deltas).name = name THEN Head(deltas).delta ELSE 0)
       + OptionDelta(Tail(deltas), name)

\* The option a successful select_choice(index) picked on runner r.
PickedOption(r, index) == Unwrap(ResolveNode(r)).choices[index + 1]

DateGhost(op, key, trace, pre, delta, session_delta, selections, commit) ==
  [op |-> op, key |-> key, call |-> trace.call, index |-> trace.index,
   res |-> trace.res, polled |-> trace.polled, pre |-> pre, delta |-> delta,
   session_delta |-> session_delta, selections |-> selections,
   commit |-> commit, pre_player |-> player]

\* ------------------------------------------------------ date actions

LoaderIdle == UNCHANGED <<registry, plugins_dir, scripts, next_script>>

\* One frame on the DateSelect screen.
UpdateDateSelect(key) ==
  /\ screen.tag = "DateSelect"
  /\ LET r == update_date_select(date_select_menu, player, registry, key) IN
     /\ IF r.ret = None
          THEN Becomes([Self EXCEPT !.date_select_menu = r.menu])
          ELSE Becomes(transition_to(Self, Unwrap(r.ret)))
     /\ ghost' = DateGhost("update_date_select", None, NoCall, None, 0, 0, 0, FALSE)
  /\ LoaderIdle

\* One frame on the Dating screen.
UpdateDating(dt, key) ==
  /\ screen.tag = "Dating"
  /\ LET r == update(screen.state, dt, key)
         picked == r.trace.call = "select_choice" /\ r.trace.res = "Ok"
         delta == IF picked
                    THEN OptionDelta(PickedOption(screen.state.runner, r.trace.index).sets,
                                     "affection")
                    ELSE 0
     IN
     /\ picked => ghost.selections < MaxSelections
     /\ IF r.ret = None
          THEN Becomes([Self EXCEPT !.screen = DatingScreen(r.state)])
          ELSE Becomes(transition_to(Self, Unwrap(r.ret)))
     /\ ghost' = DateGhost("update_dating",
                           IF r.ret # None \/ screen.state.ended THEN key ELSE None,
                           r.trace,
                           IF r.trace.call # "none" \/ r.ret # None \/ screen.state.ended
                             THEN Some(screen.state) ELSE None,
                           delta,
                           ghost.session_delta + delta,
                           ghost.selections + (IF picked THEN 1 ELSE 0),
                           r.ret # None)
  /\ LoaderIdle

\* One frame on the DateResult screen.
UpdateDateResult(key) ==
  /\ screen.tag = "DateResult"
  /\ LET ret == update_date_result(player, key) IN
     /\ IF ret = None
          THEN Becomes(Self)
          ELSE Becomes(transition_to(Self, Unwrap(ret)))
     /\ ghost' = DateGhost("update_date_result", None, NoCall, None, 0,
                           ghost.session_delta, ghost.selections, FALSE)
  /\ LoaderIdle

\* ---------------------------------------------------- initial states

\* Dialogue definitions a plugin script can build: up to two nodes "n1" and
\* "n2"; a reference may also name "zz", which no node has.
PluginTargets == {"n1", "n2", "zz"}
PluginAffections == {0, 2, -1}
\* Option records as a script writes them. A record with an affection key
\* has the display text 1, a record without one the display text 2.
OptionRecord(next, affection) ==
  DynMap([text |-> DynStr(1), next |-> DynStr(next), affection |-> DynInt(affection)])
UnkeyedOptionRecord(next) ==
  DynMap([text |-> DynStr(2), next |-> DynStr(next)])
PluginOptions ==
  {OptionRecord(next, a) : next \in PluginTargets, a \in PluginAffections}
    \cup {UnkeyedOptionRecord("n2")}
PluginSecondOptions == {OptionRecord("n2", 2), OptionRecord("zz", -1)}
PluginOptionLists ==
  {<<>>} \cup {<<a>> : a \in PluginOptions}
         \cup {<<a, b>> : a \in PluginOptions, b \in PluginSecondOptions}

\* The script-facing text, choice and end functions of create_engine.
AddAnyNode(d, id) ==
  {add_text(d, id, "coral", 1, next) : next \in PluginTargets}
    \cup {add_choice(d, id, 1, parse_choice_options(options)) : options \in PluginOptionLists}
    \cup {add_end(d, id)}

PluginDefs ==
  LET d0 == DialogueDef_new("date")
      D1 == AddAnyNode(d0, "n1")
      D2 == UNION {AddAnyNode(d, "n2") : d \in D1}
  IN {d0} \cup D1 \cup D2

\* A script that registers the fish "coral" with the given dates array.
CoralScript(dates) ==
  [name |-> 1, ext |-> "rhai", readable |-> TRUE,
   body |-> <<[op |-> "register_fish", cost |-> 1,
               map |-> [id |-> DynStr("coral"), name |-> DynStr("Coral"),
                        species |-> DynStr("Seahorse"), dates |-> DynArray(dates)]]>>]

\* A save in which every fish of the list was caught once (the catch bonus
\* of 1) and taken on k dates that were left at once.
SavedPlayer(fishes, k) ==
  LET S == {fishes[i] : i \in DOMAIN fishes} IN
  [fish_collection |-> [i \in DOMAIN fishes |->
                          [id |-> fishes[i], caught_at |-> "pond", size |-> "Small"]],
   relationship_scores |-> [f \in S |-> 1],
   date_counts |-> IF k = 0 THEN <<>> ELSE [f \in S |-> k],
   current_day |-> 1 + k * Len(fishes),
   dates_completed |-> k * Len(fishes),
   achievements |-> {}]

\* The dates arrays of the plugin fish and its date counter in the save: no
\* tree or any one tree on a first date, and two short trees (one only an end
\* node, one a text node and an end node) after any number of dates.
TwoDates ==
  <<DynDialogue(add_end(DialogueDef_new("date"), "n1")),
    DynDialogue(add_end(add_text(DialogueDef_new("date"), "n1", "coral", 1, "n2"), "n2"))>>
PluginWorlds ==
  {[dates |-> dates, k |-> 0] : dates \in {<<>>} \cup {<<DynDialogue(d)>> : d \in PluginDefs}}
    \cup {[dates |-> TwoDates, k |-> k] : k \in 0 .. MaxPriorDates}
    \cup {[dates |-> <<>>, k |-> k] : k \in 1 .. MaxPriorDates}

\* The game on the DateSelect screen: without plugins and the three
\* built-in fish caught, or with the plugin fish "coral" caught.
InitDate ==
  /\ \/ /\ registry = FishRegistry_new
        /\ plugins_dir = None
        /\ scripts = None
        /\ next_script = 1
        /\ \E k \in 0 .. MaxPriorDates : player = SavedPlayer(BUILTIN, k)
     \/ /\ \E w \in PluginWorlds :
             /\ registry = load_single_plugin(CoralScript(w.dates), FishRegistry_new).registry
             /\ player = SavedPlayer(<<Plugin("coral")>>, w.k)
        /\ plugins_dir = Some({[name |-> 1, ext |-> "rhai"]})
        /\ scripts = Some(<<1>>)
        /\ next_script = 2
  /\ screen = DateSelectScreen
  /\ date_select_menu = Some(SelectionMenu_new(date_select_items(player, registry)))
  /\ main_menu = move_down(rebuild_menu(player))
  /\ pond_state = None
  /\ collection_scroll = 0
  /\ moon_secret = SecretSequence_new
  /\ ghost = DateGhost("init", None, NoCall, None, 0, 0, 0, FALSE)

Frames == {0, 1}

NextDate ==
  \/ \E key \in KeyInputs : UpdateDateSelect(key)
  \/ \E dt \in Frames, key \in KeyInputs : UpdateDating(dt, key)
  \/ \E key \in KeyInputs : UpdateDateResult(key)

Spec == InitDate /\ [][NextDate]_vars

\* ------------------------------------------- the plugin load batch

\* A well-formed fish record, and the same record with one required field
\* left out.
FishRecord(id, name) ==
  [id |-> DynStr(id), name |-> DynStr(name), species |-> DynStr("Reef fish")]
Without(map, key) == [k \in DOMAIN map \ {key} |-> map[k]]
RequiredFields == {"id", "name", "species"}

\* Statements a script is made of: register_fish calls with well-formed and
\* with malformed records, a throw, and a loop that runs past the cap.
WithField(map, key, value) ==
  [k \in DOMAIN map \cup {key} |-> IF k = key THEN value ELSE map[k]]
\* Of the well-formed records one leaves the difficulty out, one gives the
\* float 0.7 and one the integer 3.
GoodCalls ==
  {[op |-> "register_fish", cost |-> 1, map |-> m] :
     m \in {FishRecord("coral", "Coral"),
            WithField(FishRecord("coral", "Coralie"), "difficulty", DynFloat(7)),
            WithField(FishRecord("kelp", "Kelp"), "difficulty", DynInt(3))}}
BadCalls ==
  {[op |-> "register_fish", cost |-> 1, map |-> Without(FishRecord("pearl", "Pearl"), k)] :
     k \in RequiredFields}
Statements ==
  GoodCalls \cup BadCalls
    \cup {[op |-> "throw", cost |-> 1], [op |-> "loop", cost |-> max_operations + 1]}
ScriptBodies == UNION {[1 .. n -> Statements] : n \in 0 .. MaxStmts}

\* Directories: every file name taken, each file a script or something else.
Directories ==
  {{[name |-> n, ext |-> e[n]] : n \in 1 .. MaxFiles} : e \in [1 .. MaxFiles -> {"rhai", "txt"}]}

\* What the history keeps of a script body.
Malformed(stmt) ==
  stmt.op = "register_fish" /\ \E k \in RequiredFields : k \notin DOMAIN stmt.map
WellFormed(stmt) == stmt.op = "register_fish" /\ ~Malformed(stmt)
Aborts(body) == \E i \in DOMAIN body : body[i].op \in {"throw", "loop"}
WellFormedIds(body) ==
  [i \in 1 .. Cardinality({j \in DOMAIN body : WellFormed(body[j])}) |->
     LET js == {j \in DOMAIN body : WellFormed(body[j])}
         j == CHOOSE x \in js : Cardinality({y \in js : y <= x}) = i
     IN body[j].map["id"].v]
RecoveredIds(body) ==
  {body[j].map["id"].v :
     j \in {x \in DOMAIN body : WellFormed(body[x]) /\ \E b \in 1 .. x - 1 : Malformed(body[b])}}
SeqIds(fish_defs) == [i \in DOMAIN fish_defs |-> fish_defs[i].id]

\* The first record a script submitted under each id, tagged with the file.
FirstPerId(file_name, submitted) ==
  {[file |-> file_name, fish |-> submitted[i]] :
     i \in {j \in DOMAIN submitted : \A h \in 1 .. j - 1 : submitted[h].id # submitted[j].id}}

PluginGhost(op, file_name, readable, body, r, pre) ==
  [op |-> op, file |-> file_name, readable |-> readable, aborts |-> Aborts(body),
   well_formed |-> WellFormedIds(body), recovered |-> RecoveredIds(body),
   outcome |-> r.outcome, submitted |-> r.submitted, pre |-> pre,
   failures |-> IF op = "load_single_plugin" /\ r.outcome # "ok"
                  THEN ghost.failures \cup {r.outcome} ELSE ghost.failures,
   ok_ids |-> IF op = "load_single_plugin" /\ r.outcome = "ok"
                THEN ghost.ok_ids \cup {r.submitted[i].id : i \in DOMAIN r.submitted}
                ELSE ghost.ok_ids,
   sources |-> IF op = "load_single_plugin" /\ r.outcome = "ok"
                 THEN ghost.sources \cup FirstPerId(file_name, r.submitted)
                 ELSE ghost.sources]

GameIdle ==
  UNCHANGED <<screen, player, date_select_menu, main_menu, pond_state, collection_scroll,
              moon_secret>>

\* load_plugins up to its loop.
LoadPlugins ==
  /\ ghost.op = "start"
  /\ scripts' = discover_scripts(plugins_dir)
  /\ ghost' = [ghost EXCEPT !.op = "load_plugins"]
  /\ UNCHANGED <<registry, plugins_dir, next_script>>
  /\ GameIdle

\* One turn of the loop of load_plugins: the next script is read, evaluated
\* and its fish registered.
LoadSinglePlugin(readable, body) ==
  /\ ghost.op # "start"
  /\ scripts # None
  /\ next_script <= Len(Unwrap(scripts))
  /\ LET file == [name |-> Unwrap(scripts)[next_script], ext |-> "rhai",
                  readable |-> readable, body |-> body]
         r == load_single_plugin(file, registry)
     IN /\ registry' = r.registry
        /\ ghost' = PluginGhost("load_single_plugin", file.name, readable, body, r, registry)
  /\ next_script' = next_script + 1
  /\ UNCHANGED <<plugins_dir, scripts>>
  /\ GameIdle

InitPlugins ==
  /\ plugins_dir \in {None} \cup {Some(d) : d \in Directories}
  /\ scripts = None
  /\ next_script = 1
  /\ registry = FishRegistry_new
  /\ Starts(Game_new(None, FALSE))
  /\ ghost = [op |-> "start", file |-> 0, readable |-> TRUE, aborts |-> FALSE,
              well_formed |-> <<>>, recovered |-> {}, outcome |-> "none",
              submitted |-> <<>>, pre |-> FishRegistry_new, failures |-> {},
              ok_ids |-> {}, sources |-> {}]

NextPlugins ==
  \/ LoadPlugins
  \/ \E body \in ScriptBodies : LoadSinglePlugin(TRUE, body)
  \/ LoadSinglePlugin(FALSE, <<>>)

SpecPlugins == InitPlugins /\ [][NextPlugins]_vars

\* ------------------------------------------- direct registry calls

FishDefs ==
  [id : {"coral", "kelp", "pearl"}, name : {"Coral", "Coralie"}, species : {"Reef fish"},
   difficulty : {5}, dialogues : {<<>>}]

\* One call of FishRegistry::register.
Register(fish) ==
  /\ ghost.calls < MaxRegisterCalls
  /\ LET r == register(registry, fish) IN
     /\ registry' = r.registry
     /\ ghost' = [op |-> "register", fish |-> fish, ok |-> r.ok, pre |-> registry,
                  calls |-> ghost.calls + 1,
                  first |-> IF fish.id \in DOMAIN ghost.first
                              THEN ghost.first ELSE MapPut(ghost.first, fish.id, fish),
                  seen |-> IF \E i \in DOMAIN ghost.seen : ghost.seen[i] = fish.id
                             THEN ghost.seen ELSE Append(ghost.seen, fish.id)]
  /\ UNCHANGED <<plugins_dir, scripts, next_script>>
  /\ GameIdle

InitRegistry ==
  /\ registry = FishRegistry_new
  /\ plugins_dir = None
  /\ scripts = None
  /\ next_script = 1
  /\ Starts(Game_new(None, FALSE))
  /\ ghost = [op |-> "start", fish |-> None, ok |-> FALSE, pre |-> FishRegistry_new,
              calls |-> 0, first |-> <<>>, seen |-> <<>>]

NextRegistry == \E fish \in FishDefs : Register(fish)

SpecRegistry == InitRegistry /\ [][NextRegistry]_vars

\* ------------------------------------------- the secret key detector

\* The keys fed to the detector: the three of the target and one other.
SecretKeys == {"KeyM", "KeyO", "KeyN", "Enter"}

\* The last four keys of a sequence.
LastFour(keys) ==
  IF Len(keys) <= Len(MOON_TARGET) THEN keys
  ELSE SubSeq(keys, Len(keys) - Len(MOON_TARGET) + 1, Len(keys))

\* The keys fed since the previous match or reset (history only).
FedSince == IF ghost.op = "feed" /\ ~ghost.ret THEN ghost.since ELSE <<>>

\* One call of SecretSequence::feed.
Feed(key) ==
  /\ LET r == feed(moon_secret, key) IN
     /\ moon_secret' = r.state
     /\ ghost' = [op |-> "feed", key |-> key, ret |-> r.ret, panic |-> r.panic,
                  since |-> LastFour(Append(FedSince, key)),
                  restarted |-> \/ key = MOON_TARGET[1] /\ moon_secret.progress > 0
                                \/ /\ ghost.op = "feed" /\ ~ghost.ret /\ ghost.restarted
                                   /\ key = MOON_TARGET[moon_secret.progress + 1]]
  /\ UNCHANGED <<screen, player, date_select_menu, main_menu, pond_state, collection_scroll>>
  /\ LoaderIdle

\* One call of SecretSequence::reset.
ResetSecret ==
  /\ moon_secret' = reset(moon_secret)
  /\ ghost' = [op |-> "reset", key |-> "none", ret |-> FALSE, panic |-> FALSE,
               since |-> <<>>, restarted |-> FALSE]
  /\ UNCHANGED <<screen, player, date_select_menu, main_menu, pond_state, collection_scroll>>
  /\ LoaderIdle

InitSecret ==
  /\ registry = FishRegistry_new
  /\ plugins_dir = None
  /\ scripts = None
  /\ next_script = 1
  /\ Starts(Game_new(None, FALSE))
  /\ ghost = [op |-> "new", key |-> "none", ret |-> FALSE, panic |-> FALSE,
              since |-> <<>>, restarted |-> FALSE]

NextSecret ==
  \/ \E key \in SecretKeys : Feed(key)
  \/ ResetSecret

SpecSecret == InitSecret /\ [][NextSecret]_vars

\* ------------------------------------------------- the moon battle

\* The keys a frame of the moon battle may carry: two that advance, Escape,
\* and one the battle does not know.
MoonKeyInputs == {None} \cup {Some(k) : k \in {"Enter", "ArrowRight", "Escape", "KeyM"}}

\* Advancing presses since the battle began (history only).
MoonPresses == IF ghost.op \in {"moon_new", "update_moon_battle"} THEN ghost.presses ELSE 0

\* One frame on the MoonBattle screen.
UpdateMoonBattle(dt, key) ==
  /\ screen.tag = "MoonBattle"
  /\ LET r == MoonBattleState_update(screen.state, dt, key) IN
     /\ IF r.ret = None
          THEN Becomes([Self EXCEPT !.screen = MoonBattleScreen(r.state)])
          ELSE Becomes(transition_to(Self, Unwrap(r.ret)))
     /\ ghost' = [op |-> "update_moon_battle", key |-> key, pre |-> screen.state.phase,
                  presses |-> MoonPresses + (IF key # None /\ Unwrap(key) \in MoonAdvanceKeys
                                               THEN 1 ELSE 0),
                  pre_player |-> player]
  /\ LoaderIdle

\* The game right after the secret sequence opened the moon battle.
InitMoon ==
  /\ registry = FishRegistry_new
  /\ plugins_dir = None
  /\ scripts = None
  /\ next_script = 1
  /\ Starts([Game_new(None, FALSE) EXCEPT !.screen = MoonBattleScreen(MoonBattleState_new)])
  /\ ghost = [op |-> "moon_new", key |-> None, pre |-> MoonPhase("Stargazing"),
              presses |-> 0, pre_player |-> PlayerState_default]

NextMoon == \E dt \in Frames, key \in MoonKeyInputs : UpdateMoonBattle(dt, key)

SpecMoon == InitMoon /\ [][NextMoon]_vars

\* ------------------------------------------------- the fishing minigame

\* Frame times of the minigame in milliseconds: the longest frame.
MinigameFrames == {FrameMs}

\* The keys a frame of the minigame may carry: one of each group the handler
\* tells apart, and none.
MinigameKeyInputs == {None} \cup {Some(k) : k \in {"Enter", "Escape", "KeyA", "KeyD"}}

\* The random draws of one frame of the fish AI.
RngDraws ==
  {[interval |-> 500, surge |-> s, strength |-> 500, drift |-> 500, flip |-> b, flee |-> b] :
     s \in {100, 300, 700}, b \in BOOLEAN}

\* The random draws of MinigameState::new.
NewDraws == {[wait |-> w, dir |-> b, change |-> 500] : w \in {0, 999}, b \in BOOLEAN}

\* Frames the running minigame has spent reeling (history only).
ReelFrames == IF ghost.op = "update_minigame" THEN ghost.frames ELSE 0

\* One frame on the FishingMinigame screen.
UpdateFishingMinigame(dt, key, rng) ==
  /\ screen.tag = "FishingMinigame"
  /\ screen.state.phase = "Reeling" => ReelFrames < MaxReelFrames
  /\ LET r == MinigameState_update(screen.state, dt, key, rng) IN
     /\ IF r.ret = None
          THEN Becomes([Self EXCEPT !.screen = FishingMinigameScreen(r.state)])
          ELSE Becomes(transition_to(Self, Unwrap(r.ret)))
     /\ ghost' = [op |-> "update_minigame", key |-> key,
                  pre |-> IF key = Some("Escape") THEN Some(screen.state) ELSE None,
                  ret |-> r.ret,
                  frames |-> ReelFrames + (IF screen.state.phase = "Reeling" THEN 1 ELSE 0),
                  pre_player |-> player]
  /\ LoaderIdle

\* Minigames in progress: one just cast, and reeling ones a few frames from
\* landing the fish, from the line snapping and from the 30 s timeout.
LateReeling(fish_id, pond_index) ==
  LET new == MinigameState_new(fish_id, pond_index, [wait |-> 0, dir |-> TRUE, change |-> 500])
      reeling == [new EXCEPT !.phase = "Reeling"]
  IN {[reeling EXCEPT !.timer = 5200, !.reel_progress = p, !.line_pos = 20,
                      !.fish_change_timer = c] : p \in {4850, 4950}, c \in {50, 400}}
       \cup {[reeling EXCEPT !.timer = 9000, !.reel_progress = 4950, !.line_pos = -30]}
       \cup {[reeling EXCEPT !.timer = 12000, !.reel_progress = 4950, !.line_pos = 10]}
       \cup {[reeling EXCEPT !.timer = 7000, !.reel_progress = 1000, !.line_pos = 960,
                             !.line_vel = 800]}
       \cup {[reeling EXCEPT !.timer = 29950, !.reel_progress = 2000, !.line_pos = 400]}

MinigamesInProgress ==
  UNION {{MinigameState_new(BUILTIN[i], i - 1, d) : d \in NewDraws}
           \cup LateReeling(BUILTIN[i], i - 1) : i \in {1, 2}}

\* The game in the middle of a minigame, entered from the pond menu.
InitFishing ==
  /\ registry = FishRegistry_new
  /\ plugins_dir = None
  /\ scripts = None
  /\ next_script = 1
  /\ \E m \in MinigamesInProgress :
       Starts([Game_new(None, FALSE) EXCEPT
                 !.screen = FishingMinigameScreen(m),
                 !.pond_state = Some([PondSelectState_new(FishRegistry_new) EXCEPT
                                        !.menu.selected = m.pond_index])])
  /\ ghost = [op |-> "minigame_new", key |-> None, pre |-> None, ret |-> None,
              frames |-> 0, pre_player |-> PlayerState_default]

NextFishing ==
  \E dt \in MinigameFrames, key \in MinigameKeyInputs, rng \in RngDraws :
    UpdateFishingMinigame(dt, key, rng)

SpecFishing == InitFishing /\ [][NextFishing]_vars

\* ------------------------------------------------- the whole game

\* Dates one run of the game commits, and the lowest line the collection
\* screen scrolls to.
MaxGameDates == 1
MaxScroll == 1

\* One frame on the main menu; Quit and Escape end the process.
UpdateMainMenu(key) ==
  /\ screen.tag = "MainMenu"
  /\ LET r == update_main_menu(Self, key) IN
     IF r.exit THEN Becomes([r.game EXCEPT !.screen = ExitedScreen])
     ELSE IF r.ret = None THEN Becomes(r.game)
     ELSE Becomes(transition_to(r.game, Unwrap(r.ret)))
  /\ ghost' = [op |-> "update_main_menu", key |-> key, pre_player |-> player,
               asked |-> update_main_menu(Self, key).ret]
  /\ LoaderIdle

\* One frame on the pond menu.
UpdatePondSelect(key, rng) ==
  /\ screen.tag = "FishingPondSelect"
  /\ LET r == IF pond_state # None /\ key # None
                THEN PondSelectState_update(Unwrap(pond_state), Unwrap(key), rng)
                ELSE [state |-> IF pond_state = None THEN None ELSE Unwrap(pond_state),
                      ret |-> None]
     IN IF r.ret = None
          THEN Becomes([Self EXCEPT !.pond_state =
                          IF pond_state = None THEN None ELSE Some(r.state)])
          ELSE Becomes(transition_to([Self EXCEPT !.pond_state = Some(r.state)],
                                     Unwrap(r.ret)))
  /\ ghost' = [op |-> "update_pond_select", key |-> key, pre_player |-> player]
  /\ LoaderIdle

\* One frame on the CatchResult screen.
UpdateCatchResult(key) ==
  /\ screen.tag = "CatchResult"
  /\ LET ret == update_catch_result(player, key) IN
     IF ret = None THEN Becomes(Self) ELSE Becomes(transition_to(Self, Unwrap(ret)))
  /\ ghost' = [op |-> "update_catch_result", key |-> key, pre_player |-> player]
  /\ LoaderIdle

\* One frame on the collection screen.
UpdateCollection(key) ==
  /\ screen.tag = "FishCollection"
  /\ LET r == update_collection(collection_scroll, key) IN
     /\ r.scroll <= MaxScroll
     /\ IF r.ret = None
          THEN Becomes([Self EXCEPT !.collection_scroll = r.scroll])
          ELSE Becomes(transition_to([Self EXCEPT !.collection_scroll = r.scroll],
                                     Unwrap(r.ret)))
  /\ ghost' = [op |-> "update_collection", key |-> key, pre_player |-> player]
  /\ LoaderIdle

\* One frame on the GameOver screen.
UpdateGameOver(key) ==
  /\ screen.tag = "GameOver"
  /\ LET r == update_game_over(Self, key) IN
     IF r.ret = None THEN Becomes(r.game) ELSE Becomes(transition_to(r.game, Unwrap(r.ret)))
  /\ ghost' = [op |-> "update_game_over", key |-> key, pre_player |-> player]
  /\ LoaderIdle

\* Saves the game finds at its start: Bubbles caught and dated once, three
\* points and one point from being a soulmate.
NearWin(score) ==
  [SavedPlayer(<<Bubbles>>, 1) EXCEPT !.relationship_scores = [f \in {Bubbles} |-> score]]
GameSaves == {NearWin(38), NearWin(40)}

\* A Bubbles minigame two frames from landing the fish.
AlmostLanded ==
  LET new == MinigameState_new(Bubbles, 0, [wait |-> 0, dir |-> TRUE, change |-> 500])
  IN [new EXCEPT !.phase = "Reeling", !.timer = 5200, !.reel_progress = 4850,
                 !.line_pos = 20, !.fish_change_timer = 400]

\* The games a run starts from: the game as Game::new leaves it, without a
\* save, with a save that does not load, or with a save, on the main menu or
\* a few frames before a catch.
GamesAtStart ==
  LET news == {Game_new(None, FALSE), Game_new(None, TRUE)}
                \cup {Game_new(Some(s), TRUE) : s \in GameSaves}
  IN news \cup {[g EXCEPT !.screen = FishingMinigameScreen(AlmostLanded),
                          !.pond_state = Some(PondSelectState_new(FishRegistry_new))] :
                  g \in news}

InitGame ==
  /\ registry = FishRegistry_new
  /\ plugins_dir = None
  /\ scripts = None
  /\ next_script = 1
  /\ \E g \in GamesAtStart : Starts(g)
  /\ ghost = [op |-> "game_new", key |-> None, pre_player |-> player]

\* The keys and draws of a frame of the whole game.
GameKeyInputs == KeyInputs \cup {Some("KeyO"), Some("KeyN")}
GameDatingKeys == {Some("Enter"), Some("Escape")}
GamePondKeys == {None, Some("Enter"), Some("Escape")}
GameMoonKeys == {Some("Enter"), Some("Escape")}
GameMinigameKeys == {None, Some("Enter"), Some("Escape")}
GameDraws ==
  {[interval |-> 500, surge |-> 300, strength |-> 500, drift |-> 500,
    flip |-> TRUE, flee |-> TRUE]}
GameNewDraws == {[wait |-> 0, dir |-> TRUE, change |-> 500]}

NextGame ==
  \/ \E key \in GameKeyInputs : UpdateMainMenu(key)
  \/ \E key \in GamePondKeys, rng \in GameNewDraws : UpdatePondSelect(key, rng)
  \/ \E key \in GameMinigameKeys, rng \in GameDraws : UpdateFishingMinigame(FrameMs, key, rng)
  \/ \E key \in KeyInputs : UpdateCatchResult(key)
  \/ \E key \in KeyInputs : UpdateCollection(key)
  \/ \E key \in KeyInputs : player.dates_completed < 1 + MaxGameDates /\ UpdateDateSelect(key)
  \/ \E key \in GameDatingKeys : UpdateDating(1, key)
  \/ \E key \in KeyInputs : UpdateDateResult(key)
  \/ \E key \in KeyInputs : UpdateGameOver(key)
  \/ \E key \in GameMoonKeys : UpdateMoonBattle(1, key)

SpecGame == InitGame /\ [][NextGame]_vars

\* ------------------------------------------------ properties of a date

\* The scene and the Runner on the Dating screen, and the scene the last
\* frame started from.
Scene == screen.state
Pre == Unwrap(ghost.pre)
ProbeIndexes == -1 .. 3
EventsOf(events, name) == SelectSeq(events, LAMBDA e : e.name = name)

\* C1 (Terminality): the scene is ended exactly when its Runner is Ended;
\* on an Ended Runner advance and select_choice with any index change
\* nothing and no event is pending; and a frame that starts from an ended
\* scene, whatever its key, leaves the Runner, the ended flag and the
\* affection tally as they were and polls no event.
C1_Terminality ==
  screen.tag = "Dating" =>
    /\ Scene.ended <=> RunnerState(Scene.runner) = "Ended"
    /\ RunnerState(Scene.runner) = "Ended" =>
         /\ advance(Scene.runner).runner = Scene.runner
         /\ \A i \in ProbeIndexes : select_choice(Scene.runner, i).runner = Scene.runner
         /\ Scene.runner.events = <<>>
    /\ (ghost.pre # None /\ Pre.ended) =>
         /\ Scene.runner = Pre.runner
         /\ Scene.ended
         /\ Scene.affection_gained = Pre.affection_gained
         /\ ghost.polled = <<>>

\* C1 witness: an ended scene took a frame with the Escape key and is still
\* on the Dating screen.
C1_Witness ==
  /\ screen.tag = "Dating"
  /\ ghost.pre # None
  /\ Pre.ended
  /\ ghost.key = Some("Escape")

\* C2 (Event/variable consistency): after a successful select_choice(i) whose
\* option carries delta d for variable v, previously at x, the events the
\* scene polled hold exactly one VariableChanged{v, x, x+d} when d # 0 and none
\* for v when d = 0, v reads x+d, and nothing stays queued.
C2_EventVariableConsistency ==
  (ghost.op = "update_dating" /\ ghost.call = "select_choice" /\ ghost.res = "Ok") =>
    /\ screen.tag = "Dating"
    /\ \A v \in VarNames :
         LET d == OptionDelta(PickedOption(Pre.runner, ghost.index).sets, v)
             x == Pre.runner.variables[v]
         IN /\ EventsOf(ghost.polled, v) =
                 (IF d # 0 THEN <<[name |-> v, old_value |-> x, new_value |-> x + d]>>
                           ELSE <<>>)
            /\ Scene.runner.variables[v] = x + d
    /\ Scene.runner.events = <<>>

\* C2 witness: a selection with a non-zero delta on a variable that was
\* already non-zero.
C2_Witness ==
  /\ ghost.op = "update_dating" /\ ghost.call = "select_choice" /\ ghost.res = "Ok"
  /\ ghost.delta # 0
  /\ Pre.runner.variables["affection"] # 0

\* C3 (as claimed): the affection handed to DateResult equals the sum of the
\* affection deltas of the options selected during the date.
C3_AffectionIsSumOfDeltas ==
  screen.tag = "DateResult" => screen.affection = ghost.session_delta

C5_OutOfRangeUnchanged ==
  screen.tag = "Dating" =>
    /\ RunnerState(Scene.runner) = "AtChoice" =>
         \A i \in ProbeIndexes :
           LET sc == select_choice(Scene.runner, i)
               n == Len(Unwrap(ResolveNode(Scene.runner)).choices)
           IN IF 0 <= i /\ i < n
                THEN sc.res = "Ok"
                ELSE sc.res = "IndexOutOfRange" /\ sc.runner = Scene.runner
    /\ (ghost.op = "update_dating" /\ ghost.res = "IndexOutOfRange") =>
         /\ ghost.call = "select_choice"
         /\ Scene.runner = Pre.runner
         /\ RunnerState(Scene.runner) = "AtChoice"
         /\ ghost.polled = <<>>
         /\ Scene.affection_gained = Pre.affection_gained
         /\ ~Scene.ended

\* C5 witness: the scene called select_choice with an index outside the list.
C5_Witness ==
  /\ screen.tag = "Dating"
  /\ ghost.op = "update_dating"
  /\ ghost.call = "select_choice"
  /\ ghost.res = "IndexOutOfRange"

\* C6 (advance): the scene calls advance only at a Text node, and the call
\* moves the cursor to next_node, changes no variable and queues no event; an
\* unresolvable next_node leaves the Runner Ended. At a Choice node or when
\* Ended, advance answers InvalidOperation and changes nothing.
C6_AdvanceOnlyAtText ==
  screen.tag = "Dating" =>
    /\ RunnerState(Scene.runner) # "AtText" =>
         advance(Scene.runner) = [res |-> "InvalidOperation", runner |-> Scene.runner]
    /\ (ghost.op = "update_dating" /\ ghost.call = "advance") =>
         /\ RunnerState(Pre.runner) = "AtText"
         /\ ghost.res = "Ok"
         /\ Scene.runner.current_node = Unwrap(ResolveNode(Pre.runner)).next_node
         /\ Scene.runner.variables = Pre.runner.variables
         /\ ghost.polled = <<>> /\ Scene.runner.events = <<>>
         /\ ResolveNode(Scene.runner) = None => RunnerState(Scene.runner) = "Ended"

\* C6 witness: an advance moved the cursor from a Text node to another node.
C6_Witness ==
  /\ screen.tag = "Dating"
  /\ ghost.op = "update_dating" /\ ghost.call = "advance" /\ ghost.res = "Ok"
  /\ ResolveNode(Scene.runner) # None
  /\ Scene.runner.current_node # Pre.runner.current_node

\* The tree of the running date.
SceneTree == Scene.runner.tree

\* C7 (Graph validation): a tree with a dangling reference, which validating
\* construction refuses, is still built unchecked and run; when its Runner
\* follows the dangling reference the Runner is Ended and the scene is ended.
C7_DanglingEndsDate ==
  screen.tag = "Dating" =>
    /\ DanglingRefs(SceneTree) # {} => ~validate(SceneTree)
    /\ ResolveNode(Scene.runner) = None =>
         /\ RunnerState(Scene.runner) = "Ended"
         /\ Scene.ended

\* C7 witness: a Runner call has just followed a dangling reference.
C7_Witness ==
  /\ screen.tag = "Dating"
  /\ ghost.op = "update_dating" /\ ghost.call # "none" /\ ghost.res = "Ok"
  /\ Scene.runner.current_node # None
  /\ Unwrap(Scene.runner.current_node) \in DanglingRefs(SceneTree)
  /\ Scene.ended

\* ----------------------------------------- properties of the registry

NoDuplicates(seq) == \A i, j \in DOMAIN seq : seq[i] = seq[j] => i = j

\* C8 (Duplicate id rejection): a register call with an id already present
\* returns false and leaves the registry, its count and its id list as they
\* were; after any sequence of calls every id holds the first definition
\* registered under it, once in the id list.
C8_DuplicateRejected ==
  /\ (ghost.op = "register" /\ ghost.fish.id \in DOMAIN ghost.pre.fish) =>
       /\ ~ghost.ok
       /\ registry = ghost.pre
       /\ count(registry) = count(ghost.pre)
       /\ plugin_ids(registry) = plugin_ids(ghost.pre)
  /\ (ghost.op = "register" /\ ghost.fish.id \notin DOMAIN ghost.pre.fish) =>
       /\ ghost.ok
       /\ count(registry) = count(ghost.pre) + 1
       /\ plugin_ids(registry) = Append(plugin_ids(ghost.pre), ghost.fish.id)
  /\ ghost.op = "register" =>
       /\ \A id \in DOMAIN ghost.first : get(registry, id) = Some(ghost.first[id])
       /\ DOMAIN registry.fish = DOMAIN ghost.first
       /\ NoDuplicates(plugin_ids(registry))
       /\ count(registry) = Len(plugin_ids(registry))

\* C8 witness: a definition that differs from the stored one under the same
\* id has been refused by a registry holding two fish.
C8_Witness ==
  /\ ghost.op = "register"
  /\ ~ghost.ok
  /\ get(registry, ghost.fish.id) # None
  /\ get(registry, ghost.fish.id) # Some(ghost.fish)
  /\ count(registry) = 2

\* ------------------------------------- properties of the load batch

\* C9 (Plugin isolation): a script that cannot be read, throws or runs past
\* the operation cap leaves the registry as it found it, and every fish
\* submitted by a script that ran to its end, before or after a failed one,
\* is in the registry.
C9_PluginIsolation ==
  ghost.op = "load_single_plugin" =>
    /\ ghost.outcome # "ok" => registry = ghost.pre
    /\ ghost.ok_ids \subseteq DOMAIN registry.fish
    /\ DOMAIN ghost.pre.fish \subseteq DOMAIN registry.fish
    /\ ghost.outcome = "ok" =>
         \A i \in DOMAIN ghost.submitted :
           /\ ghost.submitted[i].id \in DOMAIN registry.fish
           /\ ghost.submitted[i].id \notin DOMAIN ghost.pre.fish =>
                \E j \in 1 .. i : registry.fish[ghost.submitted[i].id] = ghost.submitted[j]
    /\ ghost.outcome = "unreadable" <=> ~ghost.readable
    /\ (ghost.readable /\ ghost.aborts) <=>
         ghost.outcome \in {"ErrorRuntime", "ErrorTooManyOperations"}

\* C9 witness: a batch in which one script failed and another registered a
\* fish, which the registry holds.
C9_Witness ==
  /\ ghost.op = "load_single_plugin"
  /\ ghost.failures # {}
  /\ ghost.ok_ids # {}
  /\ ghost.ok_ids \subseteq DOMAIN registry.fish

\* C10 (malformed record): a register_fish call whose record lacks id, name
\* or species adds nothing and does not stop the script: a script with no
\* throw and no runaway loop ends well, submits exactly its well-formed
\* records in order, and those that come after a malformed one are in the
\* registry.
C10_MalformedRecordOnly ==
  (ghost.op = "load_single_plugin" /\ ghost.readable /\ ~ghost.aborts) =>
    /\ ghost.outcome = "ok"
    /\ SeqIds(ghost.submitted) = ghost.well_formed
    /\ ghost.recovered \subseteq DOMAIN registry.fish
    /\ \A id \in ghost.recovered :
         id \notin DOMAIN ghost.pre.fish =>
           \E i \in DOMAIN ghost.submitted : registry.fish[id] = ghost.submitted[i]

\* C10 witness: a script whose malformed record came before a well-formed
\* one has put that fish into the registry.
C10_Witness ==
  /\ ghost.op = "load_single_plugin"
  /\ ghost.outcome = "ok"
  /\ ghost.recovered # {}
  /\ \E id \in ghost.recovered : id \notin DOMAIN ghost.pre.fish /\ id \in DOMAIN registry.fish

\* The scripts that ran to their end and submitted a fish under id.
SourcesOf(id) == {src \in ghost.sources : src.fish.id = id}

\* C11 (first script wins): when scripts of a batch submit the same id, the
\* registry holds that id once, with the definition submitted by the script
\* whose file name comes first in sorted order among those that ran to
\* their end.
C11_FirstScriptWins ==
  ghost.op = "load_single_plugin" =>
    /\ DOMAIN registry.fish = {src.fish.id : src \in ghost.sources}
    /\ \A id \in DOMAIN registry.fish :
         /\ Cardinality({i \in DOMAIN registry.order : registry.order[i] = id}) = 1
         /\ \E src \in SourcesOf(id) :
              /\ \A other \in SourcesOf(id) : src.file <= other.file
              /\ registry.fish[id] = src.fish

\* C11 witness: two scripts submitted different definitions under one id and
\* the registry holds the one of the first file.
C11_Witness ==
  /\ ghost.op = "load_single_plugin"
  /\ \E a, b \in ghost.sources :
       /\ a.fish.id = b.fish.id
       /\ a.file < b.file
       /\ a.fish # b.fish
       /\ registry.fish[a.fish.id] = a.fish

ScriptErrors == {"ErrorRuntime", "ErrorTooManyOperations"}

\* C13 (failed script skipped whole): when a script's evaluation ends in an
\* error, by a throw or by the operation cap, the registry is what it was
\* before the script, and no fish the script submitted before the error has
\* been added.
C13_FailedScriptSkipped ==
  (ghost.op = "load_single_plugin" /\ ghost.outcome \in ScriptErrors) =>
    /\ registry = ghost.pre
    /\ count(registry) = count(ghost.pre)
    /\ \A i \in DOMAIN ghost.submitted :
         ghost.submitted[i].id \notin DOMAIN ghost.pre.fish =>
           get(registry, ghost.submitted[i].id) = None

\* C13 witness: a script submitted a fish with a new id and then failed.
C13_Witness ==
  /\ ghost.op = "load_single_plugin"
  /\ ghost.outcome \in ScriptErrors
  /\ \E i \in DOMAIN ghost.submitted : ghost.submitted[i].id \notin DOMAIN registry.fish

\* C18 (registry shape): after any sequence of register calls the id list
\* has no duplicates, holds exactly the keys of the id-to-FishDef map, in the
\* order in which the ids were first submitted, and count() is its length.
C18_RegistryShape ==
  ghost.op \in {"start", "register"} =>
    /\ NoDuplicates(plugin_ids(registry))
    /\ {plugin_ids(registry)[i] : i \in DOMAIN plugin_ids(registry)} = DOMAIN registry.fish
    /\ plugin_ids(registry) = ghost.seen
    /\ count(registry) = Len(plugin_ids(registry))
    /\ \A id \in DOMAIN registry.fish : registry.fish[id].id = id

\* C18 witness: three ids are registered and a call for one of them has
\* just been refused.
C18_Witness ==
  /\ ghost.op = "register"
  /\ ~ghost.ok
  /\ count(registry) = 3
  /\ ghost.calls >= 4

\* C20 (as claimed): every FishDef held in the registry has a difficulty
\* within 0..1 (0..10 in tenths), whatever the script supplied.
C20_DifficultyInRange ==
  \A id \in DOMAIN registry.fish :
    0 <= registry.fish[id].difficulty /\ registry.fish[id].difficulty <= 10

\* ------------------------------------- further properties of a date

\* The options of every choice node of every tree in the registry.
RegisteredOptions ==
  UNION {UNION {UNION {{node.choices[c] : c \in DOMAIN node.choices} :
                         node \in {tree.nodes[n] : n \in {x \in DOMAIN tree.nodes :
                                                             tree.nodes[x].kind = "Choice"}}} :
                  tree \in {registry.fish[id].dialogues[t] :
                              t \in DOMAIN registry.fish[id].dialogues}} :
           id \in DOMAIN registry.fish}
ZeroDelta(option) == \A v \in VarNames : OptionDelta(option.sets, v) = 0

\* C12 (missing affection key): an option a script wrote without an affection
\* key (display text 2 in this model) is in the registered tree with zero
\* delta for every variable, as is an option written with affection 0: no
\* registered option carries a zero entry; and selecting an option with zero
\* delta polls no event and leaves variables and tally as they were.
C12_MissingAffectionIsZero ==
  /\ \A option \in RegisteredOptions :
       /\ option.text = 2 => ZeroDelta(option) /\ option.sets = <<>>
       /\ \A i \in DOMAIN option.sets : option.sets[i].delta # 0
  /\ (screen.tag = "Dating" /\ ghost.op = "update_dating"
        /\ ghost.call = "select_choice" /\ ghost.res = "Ok"
        /\ ZeroDelta(PickedOption(Pre.runner, ghost.index))) =>
       /\ ghost.polled = <<>>
       /\ Scene.runner.events = <<>>
       /\ Scene.runner.variables = Pre.runner.variables
       /\ Scene.affection_gained = Pre.affection_gained

\* C12 witness: an option written without an affection key was selected
\* after an earlier selection had changed the variable.
C12_Witness ==
  /\ screen.tag = "Dating" /\ ghost.op = "update_dating"
  /\ ghost.call = "select_choice" /\ ghost.res = "Ok"
  /\ PickedOption(Pre.runner, ghost.index).text = 2
  /\ Pre.runner.variables["affection"] # 0
  /\ ghost.polled = <<>>

\* The scene after one more sync_state, the host's only caller of current().
SyncedAgain == sync_state(Scene)
MenuItems(menu_opt) == IF menu_opt = None THEN None ELSE Some(Unwrap(menu_opt).items)

C15_OnlySelectionMutates ==
  [][screen.tag = "Dating" =>
       /\ advance(Scene.runner).runner.variables = Scene.runner.variables
       /\ poll_event(Scene.runner).runner.variables = Scene.runner.variables
       /\ \A i \in ProbeIndexes :
            select_choice(Scene.runner, i).res # "Ok" =>
              select_choice(Scene.runner, i).runner.variables = Scene.runner.variables
       /\ (screen'.tag = "Dating"
             /\ screen'.state.runner.variables # Scene.runner.variables) =>
            (ghost'.call = "select_choice" /\ ghost'.res = "Ok" /\ ghost'.delta # 0)]_vars

\* C15 witness: an advance was made while the variable was not zero, and the
\* variable kept its value.
C15_Witness ==
  /\ screen.tag = "Dating" /\ ghost.op = "update_dating"
  /\ ghost.call = "advance" /\ ghost.res = "Ok"
  /\ Pre.runner.variables["affection"] # 0
  /\ Scene.runner.variables = Pre.runner.variables

\* The events a selection appends, in the order of the option's entries.
RECURSIVE ExpectedEvents(_, _)
ExpectedEvents(variables, entries) ==
  IF entries = <<>> THEN <<>>
  ELSE LET e == Head(entries)
           old == variables[e.name]
       IN (IF e.delta # 0
             THEN <<[name |-> e.name, old_value |-> old, new_value |-> old + e.delta]>>
             ELSE <<>>)
          \o ExpectedEvents([variables EXCEPT ![e.name] = old + e.delta], Tail(entries))
RECURSIVE SumNewValues(_)
SumNewValues(events) ==
  IF events = <<>> THEN 0 ELSE Head(events).new_value + SumNewValues(Tail(events))

BUILTIN_SET == {BUILTIN[i] : i \in DOMAIN BUILTIN}

\* The trees of a fish in date order: the three built-in trees, or the
\* registered dialogues of a plugin fish.
TreesOf(fish_id) ==
  CASE fish_id = Bubbles -> <<build_bubbles_date1, build_bubbles_date2, build_bubbles_date3>>
    [] fish_id = Marina -> <<build_marina_date1, build_marina_date2, build_marina_date3>>
    [] fish_id = Gill -> <<build_gill_date1, build_gill_date2, build_gill_date3>>
    [] OTHER -> registry.fish[fish_id.id].dialogues

\* C19 (tree rotation): the date started from the DateSelect screen with a
\* fish whose date counter is k runs the tree at index k mod N of the fish's
\* N trees (three for a built-in fish); a plugin fish without trees runs the
\* fallback dialogue; a finished date raises the counter of its fish by one,
\* so successive dates take the trees in order.
C19_TreeRotation ==
  /\ (ghost.op = "update_date_select" /\ screen.tag = "Dating") =>
       LET trees == TreesOf(Scene.fish_id)
           k == date_count(player, Scene.fish_id)
       IN /\ Scene.fish_id \in BUILTIN_SET => Len(trees) = DIALOGUES_PER_FISH
          /\ Scene.runner.tree =
               (IF trees = <<>>
                  THEN fallback_dialogue(registry.fish[Scene.fish_id.id].name)
                  ELSE trees[(k % Len(trees)) + 1])
  /\ ghost.commit =>
       date_count(player, Pre.fish_id) = date_count(ghost.pre_player, Pre.fish_id) + 1

\* C19 witness: a fourth date with a built-in fish runs its first tree again.
C19_Witness ==
  /\ ghost.op = "update_date_select" /\ screen.tag = "Dating"
  /\ Scene.fish_id \in BUILTIN_SET
  /\ date_count(player, Scene.fish_id) = DIALOGUES_PER_FISH
  /\ Scene.runner.tree = TreesOf(Scene.fish_id)[1]

\* C24 (the secret sequence): feed returns true exactly when the key just fed
\* completes KeyM, KeyO, KeyO, KeyN as the last four keys fed since the
\* previous match or reset; the progress counter stays within 0..3 and the
\* target is never indexed outside its bounds.
C24_FeedMatchesMoon ==
  /\ moon_secret.progress \in 0 .. Len(MOON_TARGET) - 1
  /\ ghost.op = "feed" =>
       /\ ~ghost.panic
       /\ ghost.ret <=> ghost.since = MOON_TARGET
       /\ ghost.ret => moon_secret.progress = 0

\* C24 witness: the sequence is matched after a false start, a KeyM fed in
\* the middle of a partial match.
C24_Witness ==
  /\ ghost.op = "feed"
  /\ ghost.ret
  /\ ghost.restarted

\* The phases of the moon battle in the order the advancing presses reach
\* them.
MoonOrder ==
  <<MoonPhase("Stargazing"), MoonPhase("Lasso"), MoonPhase("Capture"),
    MoonPhase("MoonFalls"), MoonPhase("DrawSwords"), Clash(0), Clash(1), Clash(2),
    Clash(0), MoonPhase("Victory")>>

\* The phase after n advancing presses is the n-th of MoonOrder, so Victory is
\* entered on exactly the ninth press; Escape returns to the main menu from
\* any phase.
MoonPhasesInOrder ==
  /\ screen.tag = "MoonBattle" =>
       /\ MoonPresses + 1 \in DOMAIN MoonOrder
       /\ screen.state.phase = MoonOrder[MoonPresses + 1]
       /\ screen.state.clash_cycles = Max(MoonPresses - 5, 0)
  /\ ghost.op = "update_moon_battle" /\ ghost.key = Some("Escape") =>
       screen = MainMenuScreen

\* C25 as stated: the phases come in the fixed order, Escape leaves from any
\* phase, and an advancing press at Victory leaves the battle at Victory.
C25_VictoryNeverLeft ==
  /\ MoonPhasesInOrder
  /\ (/\ ghost.op = "update_moon_battle"
      /\ ghost.pre = MoonPhase("Victory")
      /\ ghost.key # None /\ Unwrap(ghost.key) \in MoonAdvanceKeys) =>
       (screen.tag = "MoonBattle" /\ screen.state.phase = MoonPhase("Victory"))

\* C25 (amended): the phases come in the fixed order and Victory is entered
\* on exactly the ninth advancing press; Escape returns to the main menu from
\* any phase, and so does the tenth advancing press, the one made at
\* Victory; nothing else leaves the battle.
C25_TenthPressLeaves ==
  /\ MoonPhasesInOrder
  /\ (/\ ghost.op = "update_moon_battle"
      /\ ghost.pre = MoonPhase("Victory")
      /\ ghost.key # None /\ Unwrap(ghost.key) \in MoonAdvanceKeys) =>
       (screen = MainMenuScreen /\ ghost.presses = Len(MoonOrder))
  /\ (ghost.op = "update_moon_battle" /\ screen.tag # "MoonBattle") =>
       /\ screen = MainMenuScreen
       /\ \/ ghost.key = Some("Escape")
          \/ ghost.pre = MoonPhase("Victory") /\ Unwrap(ghost.key) \in MoonAdvanceKeys

\* C25 witness: the tenth advancing press, made at Victory, has returned the
\* game to the main menu.
C25_Witness ==
  /\ ghost.op = "update_moon_battle"
  /\ ghost.pre = MoonPhase("Victory")
  /\ ghost.presses = Len(MoonOrder)
  /\ screen = MainMenuScreen

\* C26 (Escape leaves the minigame): a frame that carries Escape while the
\* phase is Casting, Waiting or Reeling returns the transition to
\* FishingPondSelect, the game is on that screen afterwards, and no catch is
\* recorded.
C26_EscapeAlwaysExits ==
  (/\ ghost.op = "update_minigame"
   /\ ghost.key = Some("Escape")
   /\ Unwrap(ghost.pre).phase \in {"Casting", "Waiting", "Reeling"}) =>
    /\ ghost.ret = Some(FishingPondSelectScreen)
    /\ screen = FishingPondSelectScreen
    /\ player = ghost.pre_player

\* ------------------------------------- properties of the built-in trees

\* Steps a walk of a tree is followed for before it is given up as a loop.
MaxWalk == 12

\* Every way through the tree from Runner r: the advances and selections
\* made until the Runner is Ended, and how the walk ended ("End" at an End
\* node, "Dangling" at a node id the tree does not have, "NoNext" after a
\* Text node without a successor, "Refused" when the Runner refuses a call, and
\* "Loop" when MaxWalk steps did not end it).
RECURSIVE Walks(_, _)
Walks(r, fuel) ==
  IF RunnerState(r) = "Ended"
    THEN {[advances |-> 0, selections |-> 0,
           how |-> IF ResolveNode(r) # None THEN "End"
                   ELSE IF r.current_node = None THEN "NoNext" ELSE "Dangling"]}
  ELSE IF fuel = 0 THEN {[advances |-> 0, selections |-> 0, how |-> "Loop"]}
  ELSE IF RunnerState(r) = "AtText"
    THEN IF advance(r).res # "Ok"
           THEN {[advances |-> 0, selections |-> 0, how |-> "Refused"]}
           ELSE {[w EXCEPT !.advances = @ + 1] : w \in Walks(advance(r).runner, fuel - 1)}
  ELSE IF Unwrap(current(r)).choices = <<>>
    THEN {[advances |-> 0, selections |-> 0, how |-> "Refused"]}
  ELSE UNION {IF select_choice(r, i - 1).res # "Ok"
                THEN {[advances |-> 0, selections |-> 0, how |-> "Refused"]}
                ELSE {[w EXCEPT !.selections = @ + 1] :
                        w \in Walks(select_choice(r, i - 1).runner, fuel - 1)} :
              i \in DOMAIN Unwrap(current(r)).choices}

\* The one walk the built-in trees allow: four advances, three selections,
\* ending at an End node.
BuiltinWalk == [advances |-> 4, selections |-> 3, how |-> "End"]

\* C30 (built-in trees): every built-in tree, from its start node, reaches
\* the Ended state after exactly four advances and three selections whatever
\* options are picked, at an End node, so no reference followed is dangling
\* and no walk loops; a built-in date that has ended has made three
\* selections and stands on an End node of its tree.
C30_BuiltinTreesEnd ==
  (screen.tag = "Dating" /\ Scene.fish_id \in BUILTIN_SET) =>
     /\ ghost.op = "update_date_select" =>
          /\ Scene.runner = DialogueRunner_new(Scene.runner.tree)
          /\ Walks(Scene.runner, MaxWalk) = {BuiltinWalk}
     /\ (ghost.op = "update_dating" /\ RunnerState(Scene.runner) = "Ended") =>
          /\ ghost.selections = 3
          /\ ResolveNode(Scene.runner) # None

\* C30 witness: a date with a built-in fish has ended after its third
\* selection, on an End node.
C30_Witness ==
  /\ screen.tag = "Dating" /\ Scene.fish_id \in BUILTIN_SET
  /\ ghost.op = "update_dating" /\ RunnerState(Scene.runner) = "Ended"
  /\ ghost.selections = 3
  /\ ResolveNode(Scene.runner) # None


\* The scenes one more frame can make of the scenes S, whatever the key.
SceneStep(S) ==
  S \cup {update(s, dt, key).state : s \in S, dt \in Frames, key \in KeyInputs}

\* Some sequence of at most fuel frames takes one of the scenes S to a frame
\* whose key makes update ask for the DateResult screen. The search stops
\* early when no frame leads to a scene not seen yet.
RECURSIVE CanFinish(_, _)
CanFinish(S, fuel) ==
  IF \E s \in S, dt \in Frames, key \in KeyInputs : update(s, dt, key).ret # None
    THEN TRUE
  ELSE IF fuel = 0 \/ SceneStep(S) = S THEN FALSE
  ELSE CanFinish(SceneStep(S), fuel - 1)

\* C23 (a date never gets stuck): from every state of a date session, for
\* any dialogue graph a plugin can produce, some sequence of key presses
\* leads to the DateResult screen.
C23_NeverStuck ==
  screen.tag = "Dating" => CanFinish({Scene}, MaxWalk)


\* --------------------------------------------- calls of add_affection

\* add_affection calls in one run.
MaxAffectionCalls == 4

\* Amounts of a call: the catch bonus, deltas a date can commit, and the
\* ends of the i32 range.
AffectionAmounts == {1, 3, -1, -5, 2147483647, -2147483647 - 1}
AffectionFish == {Bubbles, Plugin("coral")}

\* One call of add_affection. When the sum leaves the i32 range a build with
\* overflow checks panics after the entry was created and before the store,
\* and a build without them stores the clamped wrapped sum.
AddAffection(fish_id, amount) ==
  /\ ghost.op \in {"affection_new", "add_affection"}
  /\ ~ghost.panicked
  /\ ghost.calls < MaxAffectionCalls
  /\ LET old == MapGetOr0(player.relationship_scores, fish_id)
         over == OverflowsI32(old, amount)
     IN \E checks \in IF over THEN BOOLEAN ELSE {FALSE} :
          /\ player' = IF checks
                         THEN [player EXCEPT !.relationship_scores = MapPut(@, fish_id, old)]
                         ELSE add_affection(player, fish_id, amount)
          /\ ghost' = [op |-> "add_affection", fish_id |-> fish_id, amount |-> amount,
                       old |-> old, over |-> over, panicked |-> checks,
                       calls |-> ghost.calls + 1]
  /\ UNCHANGED <<screen, date_select_menu, main_menu, pond_state, collection_scroll,
                 moon_secret>>
  /\ LoaderIdle

InitAffection ==
  /\ registry = FishRegistry_new
  /\ plugins_dir = None
  /\ scripts = None
  /\ next_script = 1
  /\ Starts(Game_new(None, FALSE))
  /\ ghost = [op |-> "affection_new", panicked |-> FALSE, calls |-> 0]

NextAffection ==
  \E fish_id \in AffectionFish, amount \in AffectionAmounts : AddAffection(fish_id, amount)

SpecAffection == InitAffection /\ [][NextAffection]_vars

\* C29 (scores are never negative): after any sequence of add_affection
\* calls with positive or negative amounts every stored relationship score
\* is at least 0, and a call that did not leave the i32 range stores the
\* sum, or 0 when the sum is negative.
C29_ScoreNeverNegative ==
  /\ \A f \in DOMAIN player.relationship_scores : player.relationship_scores[f] >= 0
  /\ (ghost.op = "add_affection" /\ ~ghost.over) =>
       player.relationship_scores[ghost.fish_id] =
         (IF ghost.old + ghost.amount < 0 THEN 0 ELSE ghost.old + ghost.amount)

\* C29 witness: a negative amount larger than the score met a positive
\* score, and the score is 0.
C29_Witness ==
  /\ ghost.op = "add_affection" /\ ~ghost.over
  /\ ghost.old > 0 /\ ghost.old + ghost.amount < 0
  /\ player.relationship_scores[ghost.fish_id] = 0

\* C29 witness of the wrap: the sum left the i32 range, the build stored the
\* wrapped sum clamped at 0.
C29_WrapWitness ==
  /\ ghost.op = "add_affection" /\ ghost.over /\ ~ghost.panicked
  /\ player.relationship_scores[ghost.fish_id] = 0


\* The sum of the values of a map.
RECURSIVE SumOf(_)
SumOf(m) ==
  IF DOMAIN m = {} THEN 0
  ELSE LET k == CHOOSE k \in DOMAIN m : TRUE
       IN m[k] + SumOf([j \in DOMAIN m \ {k} |-> m[j]])

\* Some relationship score of the player is at least the Soulmate threshold.
SomeSoulmate(p) ==
  \E f \in DOMAIN p.relationship_scores :
    /\ p.relationship_scores[f] >= 41
    /\ relationship_label(p.relationship_scores[f]) = "Soulmate"

\* No code path of the game changes the unlocked set.
AchievementsNeverChange == player.achievements = {}

\* C21 (achievements after a commit): once a dialogue session has committed
\* and the frame that leaves the DateResult screen has run, the condition
\* dates_completed >= 1 has been evaluated and ACH_FIRST_DATE is in the
\* player's unlocked set.
C21_FirstDateUnlocked ==
  (ghost.op = "update_date_result" /\ screen.tag # "DateResult"
     /\ player.dates_completed >= 1) =>
    "ACH_FIRST_DATE" \in player.achievements

\* C22 (game over): the CatchResult and DateResult screens are left only by
\* Enter or Space, for GameOver if and only if some relationship score is at
\* least 41 and for MainMenu otherwise; the GameOver screen is shown only
\* while some score is at least 41.
C22_GameOverOnlyWhenWon ==
  /\ screen = GameOverScreen => SomeSoulmate(player)
  /\ ghost.op = "update_catch_result" =>
       (screen.tag # "CatchResult" <=> (ghost.key # None /\ Unwrap(ghost.key) \in Confirm))
  /\ (ghost.op \in {"update_catch_result", "update_date_result"}
        /\ screen.tag \notin {"CatchResult", "DateResult"}) =>
       /\ player = ghost.pre_player
       /\ screen = (IF SomeSoulmate(player) THEN GameOverScreen ELSE MainMenuScreen)

\* C22 witness: a catch raised a score to 41 and the catch screen was left
\* for the GameOver screen.
C22_Witness ==
  /\ ghost.op = "update_catch_result" /\ screen = GameOverScreen
  /\ \E f \in DOMAIN player.relationship_scores : player.relationship_scores[f] = 41

\* C27 (day counters): in every state of a game that began with a new
\* player or a save the game wrote, dates_completed is the sum of the
\* per-fish date counters and current_day is dates_completed + 1.
C27_DayCounters ==
  /\ player.dates_completed = SumOf(player.date_counts)
  /\ player.current_day = player.dates_completed + 1

\* C27 witness: a game that began with a new player has caught a fish in a
\* pond and committed a date.
C27_Witness ==
  /\ ghost.op = "update_dating" /\ ghost.commit
  /\ player.dates_completed >= 1
  /\ player.fish_collection[1].caught_at = POND_NAMES[1]

\* C28 (a date needs a caught fish): on the Dating and DateResult screens
\* the fish of the date is in the collection; the DateSelect screen is shown
\* only while some caught fish is dateable, and asking for it without one
\* leaves the game on the main menu.
C28_DateOnlyCaught ==
  /\ screen.tag = "Dating" => has_caught(player, screen.state.fish_id)
  /\ screen.tag = "DateResult" => has_caught(player, screen.fish_id)
  /\ screen.tag = "DateSelect" =>
       /\ dateable(player, registry) # <<>>
       /\ date_select_menu # None
       /\ Len(Unwrap(date_select_menu).items) = Len(dateable(player, registry))
  /\ (ghost.op = "update_main_menu" /\ ghost.asked = Some(DateSelectScreen)) =>
       screen = (IF dateable(player, registry) = <<>> THEN MainMenuScreen
                 ELSE DateSelectScreen)

\* C28 witness: "Go on a Date" was chosen with an empty collection and the
\* game stayed on the main menu.
C28_Witness ==
  /\ ghost.op = "update_main_menu" /\ ghost.asked = Some(DateSelectScreen)
  /\ player.fish_collection = <<>>
  /\ screen = MainMenuScreen

====
